---- MODULE Spec2Model ----
(***************************************************************************)
(* Model of the chat-context selector of the data-analysis assistant:      *)
(* ChatInterface.findRelevantContent (src/src/components/ChatInterface.tsx)*)
(*                                                                         *)
(* A JavaScript string is modelled as a sequence of characters, a          *)
(* character as a one-character string.  documentData is modelled as the   *)
(* sequence Object.entries(documentData) yields: [name, rows] records in   *)
(* sheet-iteration order.  A row is the sequence Object.entries(row)       *)
(* yields: [key, value] records in property order.                         *)
(***************************************************************************)
EXTENDS Integers, Sequences, FiniteSets, TLC

VARIABLES
  documentData,     \* the documentData prop, as Object.entries yields it
  called,           \* TRUE once findRelevantContent has returned
  query,            \* the argument of the last call
  keywords,         \* the local keywords of the last call
  relevantContent,  \* the local relevantContent of the last call when the
                    \* loop over the sheets ends (before truncation, fallback)
  context,          \* the value the last call returned
  log,              \* history: the query and the returned value of every call
                    \* so far, in call order (kept by LoggedSpec only)
  messages,         \* ChatInterface: the messages state
  inputValue,       \* ChatInterface: the inputValue state
  isLoading,        \* ChatInterface: the isLoading state
  isDataProcessed,  \* ChatInterface: the isDataProcessed state
  completionCall,   \* the arguments of the last generateCompletion call
  request,          \* the messages array of the last getChatCompletions call
  completion,       \* generateCompletion: "idle", "pending" (awaiting the
                    \* client), "resolved" or "rejected"
  currentIndexName, \* AzureSearchService: the currentIndexName field
  searchQuery,      \* searchDocuments: the query and top arguments, and the
                    \* keywords it extracted from the query (they are logged)
  searchPc,         \* searchDocuments: "idle", awaiting the "primary", the
                    \* "fallback" or the "lastResort" request, or "done"
  requests,         \* the bodies posted by the current searchDocuments call
  answers,          \* what each of these requests was answered
  searchResult,     \* the value searchDocuments returned
  createResult,     \* the value the last createTempIndex call resolved to:
                    \* <<>> before any call, then <<TRUE>> or <<FALSE>>
  hasCredentials,   \* AzureLanguageService: the hasCredentials field
  results,          \* KeyPhraseExtraction: the results state
  isProcessing,     \* KeyPhraseExtraction: the isProcessing state
  processing,       \* processSheets: where the run is (the sheet, the batch
                    \* offset i and the documents of the awaited batch)
  allKeyPhrases,    \* processSheets: allKeyPhrases of the current sheet
  submitted,        \* the batches passed to extractKeyPhrases in this run
  analyzed,         \* the document lists passed to client.analyze in this run
  outcomes,         \* how each submitted batch was answered
  sentimentResults,      \* SentimentAnalysis: the results state
  sentimentIsProcessing, \* SentimentAnalysis: the isProcessing state
  sentimentRun,          \* SentimentAnalysis.processSheets: "idle", "awaiting"
                         \* analyzeSentiment for the text of a sheet, or "done"
  sentimentCalls,        \* the texts given to client.analyze by analyzeSentiment
                         \* in the current run
  resolved,              \* what the last call of the language service resolved
                         \* to, and the method called
  proxyRequest,     \* proxy: the request being handled (method, url, body and
                    \* whether the client sent an api-key header)
  proxyPc,          \* proxy: "idle", "forwarding" (awaiting the search
                    \* service) or "responded"
  forwarded,        \* proxy: the requests made to the search service for the
                    \* request being handled
  proxyResponses,   \* proxy: the responses sent for the request being handled
  searchConfigured, \* server: VITE_AZURE_SEARCH_ENDPOINT and _API_KEY are set
  reqDocuments,     \* create-index: req.body.documents of the request served
  createPc,         \* create-index: "idle", awaiting the "delete", "create",
                    \* "upload" or "count" call, "settling" (the 3 s wait),
                    \* or "responded"
  uploadOffset,     \* create-index: the loop variable i
  upstream,         \* the calls made to the search service for this request
  upstreamAnswers,  \* how each of these calls was answered
  responses,        \* the HTTP responses sent for this request
  openAIConfigured, \* browser: the three VITE_AZURE_OPENAI_* values are set
  appState,         \* the browser application: "loading" (modules not yet
                    \* evaluated), "mounted" or "failed"
  isDataUploaded    \* App: the isDataUploaded state

selectorVars == <<documentData, called, query, keywords, relevantContent, context>>

chatVars == <<messages, inputValue, isLoading, isDataProcessed>>

completionVars == <<completionCall, request, completion>>

searchVars ==
  <<currentIndexName, searchQuery, searchPc, requests, answers, searchResult,
    createResult>>

keyPhraseVars ==
  <<hasCredentials, results, isProcessing, processing, allKeyPhrases,
    submitted, analyzed, outcomes>>

proxyVars == <<proxyRequest, proxyPc, forwarded, proxyResponses>>

serverVars ==
  <<proxyVars, searchConfigured, reqDocuments, createPc, uploadOffset, upstream,
    upstreamAnswers, responses>>

sentimentComponentVars ==
  <<sentimentResults, sentimentIsProcessing, sentimentRun, sentimentCalls>>

sentimentVars == <<sentimentComponentVars, resolved>>

backendVars == <<searchVars, keyPhraseVars, sentimentVars, serverVars>>

appVars == <<openAIConfigured, appState, isDataUploaded>>

frontVars == <<selectorVars, log, chatVars, completionVars, appVars>>

vars == <<frontVars, backendVars>>

----------------------------------------------------------------------------
(* Characters *)

LowerLetters ==
  <<"a","b","c","d","e","f","g","h","i","j","k","l","m",
    "n","o","p","q","r","s","t","u","v","w","x","y","z">>

UpperLetters ==
  <<"A","B","C","D","E","F","G","H","I","J","K","L","M",
    "N","O","P","Q","R","S","T","U","V","W","X","Y","Z">>

Digits == <<"0","1","2","3","4","5","6","7","8","9">>

Range(f) == { f[i] : i \in DOMAIN f }

UpperSet == Range(UpperLetters)

\* \w of a JavaScript regular expression: [A-Za-z0-9_]
WordChars == Range(LowerLetters) \cup UpperSet \cup Range(Digits) \cup {"_"}

\* \s of a JavaScript regular expression, within the model's alphabet
WhitespaceChars == {" ", "\t", "\n", "\r", "\f"}

\* The lower-case letter of each upper-case letter
LowerOf ==
  [c \in UpperSet |->
     LowerLetters[CHOOSE i \in DOMAIN UpperLetters : UpperLetters[i] = c]]

\* String.prototype.toLowerCase, one character
LowerChar(c) == IF c \in UpperSet THEN LowerOf[c] ELSE c

\* String.prototype.toLowerCase
toLowerCase(s) == [i \in DOMAIN s |-> LowerChar(s[i])]

\* s.replace(/[^\w\s]/g, ' ')
ReplaceNonWord(s) ==
  [i \in DOMAIN s |-> IF s[i] \in WordChars \/ s[i] \in WhitespaceChars THEN s[i] ELSE " "]

\* s.split(sep) for a one-character separator: "" splits to [""], and two
\* adjacent separators enclose an empty token
RECURSIVE SplitFrom(_, _, _, _)
SplitFrom(s, sep, i, cur) ==
  IF i > Len(s) THEN <<cur>>
  ELSE IF s[i] = sep THEN <<cur>> \o SplitFrom(s, sep, i + 1, <<>>)
  ELSE SplitFrom(s, sep, i + 1, Append(cur, s[i]))

split(s, sep) == SplitFrom(s, sep, 1, <<>>)

\* Array.prototype.join
RECURSIVE join(_, _)
join(seq, sep) ==
  IF seq = <<>> THEN <<>>
  ELSE IF Len(seq) = 1 THEN seq[1]
  ELSE seq[1] \o sep \o join(Tail(seq), sep)

\* Mutant of includes: k must occur as a whole word of s
includesWord(s, k) ==
  \E i \in 0..(Len(s) - Len(k)) :
    /\ \A j \in 1..Len(k) : s[i + j] = k[j]
    /\ (i = 0 \/ s[i] \notin WordChars)
    /\ (i + Len(k) = Len(s) \/ s[i + Len(k) + 1] \notin WordChars)

\* String.prototype.includes
includes(s, k) ==
  \E i \in 0..(Len(s) - Len(k)) : \A j \in 1..Len(k) : s[i + j] = k[j]

\* The elements of seq without their repetitions, in the order of their first
\* occurrences: the insertion order of a Set
Unique(seq) ==
  LET firsts == SelectSeq([k \in DOMAIN seq |-> k],
                          LAMBDA k : \A j \in 1..(k - 1) : seq[j] # seq[k])
  IN  [k \in DOMAIN firsts |-> seq[firsts[k]]]

\* Number to decimal string (non-negative integers)
RECURSIVE Decimal(_)
Decimal(n) ==
  IF n < 10 THEN <<Digits[n + 1]>>
  ELSE Decimal(n \div 10) \o <<Digits[(n % 10) + 1]>>

----------------------------------------------------------------------------
(* Scalar cell values: string, number, boolean or null *)

StringValue(s) == [type |-> "string", str |-> s, num |-> 0, bool |-> FALSE]
NumberValue(n) == [type |-> "number", str |-> <<>>, num |-> n, bool |-> FALSE]
BooleanValue(b) == [type |-> "boolean", str |-> <<>>, num |-> 0, bool |-> b]
NullValue == [type |-> "null", str |-> <<>>, num |-> 0, bool |-> FALSE]

Entry(k, v) == [key |-> k, value |-> v]

\* JSON.stringify of a string: quoted, with ", \ and control characters escaped
EscapeChar(c) ==
  CASE c = "\"" -> <<"\\", "\"">>
    [] c = "\\" -> <<"\\", "\\">>
    [] c = "\t" -> <<"\\", "t">>
    [] c = "\n" -> <<"\\", "n">>
    [] c = "\r" -> <<"\\", "r">>
    [] c = "\f" -> <<"\\", "f">>
    [] OTHER -> <<c>>

\* The escapes of the characters of s, one after the other (an escape has one
\* or two characters)
EscapeString(s) ==
  LET wide == { i \in DOMAIN s : Len(EscapeChar(s[i])) = 2 }
      At(i) == i + Cardinality({ j \in wide : j < i })
  IN  [k \in 1..(Len(s) + Cardinality(wide)) |->
         LET i == CHOOSE i \in DOMAIN s : At(i) = k \/ (i \in wide /\ At(i) + 1 = k)
         IN  EscapeChar(s[i])[k - At(i) + 1]]

JSONString(s) == <<"\"">> \o EscapeString(s) \o <<"\"">>

\* JSON.stringify of a scalar value
JSONValue(v) ==
  CASE v.type = "string" -> JSONString(v.str)
    [] v.type = "number" -> Decimal(v.num)
    [] v.type = "boolean" -> IF v.bool THEN <<"t","r","u","e">> ELSE <<"f","a","l","s","e">>
    [] OTHER -> <<"n","u","l","l">>

\* JSON.stringify(row): {"key":value,"key":value}
JSONstringify(row) ==
  <<"{">>
  \o join([i \in DOMAIN row |-> JSONString(row[i].key) \o <<":">> \o JSONValue(row[i].value)],
          <<",">>)
  \o <<"}">>

\* `${value}`: the string conversion of a template literal
TemplateString(v) ==
  CASE v.type = "string" -> v.str
    [] v.type = "number" -> Decimal(v.num)
    [] v.type = "boolean" -> IF v.bool THEN <<"t","r","u","e">> ELSE <<"f","a","l","s","e">>
    [] OTHER -> <<"n","u","l","l">>

\* Object.entries(row).map(([key, value]) => `${key}: ${value}`).join(', ')
FormatRow(row) ==
  join([i \in DOMAIN row |-> row[i].key \o <<":", " ">> \o TemplateString(row[i].value)],
       <<",", " ">>)

----------------------------------------------------------------------------
(* findRelevantContent *)

stopWords ==
  { <<"a">>, <<"a","n">>, <<"t","h","e">>, <<"a","n","d">>,
    <<"o","r">>, <<"b","u","t">>, <<"i","s">>, <<"a","r","e">>,
    <<"w","a","s">>, <<"w","e","r","e">>, <<"o","f">>, <<"i","n">>,
    <<"t","o">>, <<"f","o","r">>, <<"w","i","t","h">>, <<"a","b","o","u","t">>,
    <<"b","y">>, <<"a","t">>, <<"o","n">> }

\* The cap on the number of matches returned
MaxContext == 20

\* query.toLowerCase().replace(/[^\w\s]/g, ' ').split(' ')
Tokens(q) == split(ReplaceNonWord(toLowerCase(q)), " ")

KeepWord(word) == Len(word) > 2 /\ word \notin stopWords

\* .filter(word => word.length > 2 && !stopWords.includes(word))
Keywords(q) == SelectSeq(Tokens(q), KeepWord)

\* Mutant of RowMatches: the serialized row is not lowercased
RowMatchesCaseSensitive(row, kws) ==
  LET rowStr == JSONstringify(row)
  IN  \E i \in DOMAIN kws : includes(rowStr, kws[i])

\* keywords.filter(keyword => rowStr.includes(keyword)).length > 0
RowMatches(row, kws) ==
  LET rowStr == toLowerCase(JSONstringify(row))
  IN  \E i \in DOMAIN kws : includes(rowStr, kws[i])

\* An element of the result: text is the string the code pushes; kind, sheet
\* and row record where it was built from (sheet: position of the sheet in
\* Object.entries(documentData), row: rowIndex + 1).
Snippet(kind, sheet, row, text) ==
  [kind |-> kind, sheet |-> sheet, row |-> row, text |-> text]

\* Mutant of MatchText: the row number is the 0-based rowIndex
MatchTextZeroBased(sheetName, rowIndex, row) ==
  <<"[","F","r","o","m"," ","s","h","e","e","t"," ","\"">> \o sheetName \o <<"\"",","," ","r","o","w"," ">>
  \o Decimal(rowIndex) \o <<"]", ":", " ">> \o FormatRow(row)

\* `[From sheet "${sheetName}", row ${rowIndex+1}]: ${formattedRow}`
MatchText(sheetName, rowIndex, row) ==
  <<"[","F","r","o","m"," ","s","h","e","e","t"," ","\"">> \o sheetName \o <<"\"",","," ","r","o","w"," ">>
  \o Decimal(rowIndex + 1) \o <<"]", ":", " ">> \o FormatRow(row)

\* `[Sample from sheet "${sheetName}"]: ${formattedRow}`
SampleText(sheetName, row) ==
  <<"[","S","a","m","p","l","e"," ","f","r","o","m"," ","s","h","e","e","t"," ","\"">> \o sheetName
  \o <<"\"", "]", ":", " ">> \o FormatRow(row)

\* rows.forEach((row, rowIndex) => { ... push ... }), from rowIndex on
RECURSIVE ForEachRow(_, _, _, _, _)
ForEachRow(sheetName, sheet, rows, rowIndex, kws) ==
  IF rowIndex >= Len(rows) THEN <<>>
  ELSE LET row == rows[rowIndex + 1]
       IN  (IF RowMatches(row, kws)
              THEN <<Snippet("match", sheet, rowIndex + 1,
                             MatchText(sheetName, rowIndex, row))>>
              ELSE <<>>)
           \o ForEachRow(sheetName, sheet, rows, rowIndex + 1, kws)

\* Mutant of ForEachSheet: the sheets are visited last to first
RECURSIVE ForEachSheetDescending(_, _, _)
ForEachSheetDescending(data, sheet, kws) ==
  IF sheet > Len(data) THEN <<>>
  ELSE ForEachSheetDescending(data, sheet + 1, kws)
       \o ForEachRow(data[sheet].name, sheet, data[sheet].rows, 0, kws)

\* Object.entries(documentData).forEach(([sheetName, rows]) => ...), from
\* position sheet on: the local relevantContent when the loop ends
RECURSIVE ForEachSheet(_, _, _)
ForEachSheet(data, sheet, kws) ==
  IF sheet > Len(data) THEN <<>>
  ELSE ForEachRow(data[sheet].name, sheet, data[sheet].rows, 0, kws)
       \o ForEachSheet(data, sheet + 1, kws)

\* Mutant of SampleEachSheet: the sample is the last row of the sheet
RECURSIVE SampleLastRow(_, _)
SampleLastRow(data, sheet) ==
  IF sheet > Len(data) THEN <<>>
  ELSE LET rows == data[sheet].rows
       IN  (IF Len(rows) > 0
              THEN <<Snippet("sample", sheet, 1,
                             SampleText(data[sheet].name, rows[Len(rows)]))>>
              ELSE <<>>)
           \o SampleLastRow(data, sheet + 1)

\* The sample loop: one snippet from rows[0] of every sheet that has rows
RECURSIVE SampleEachSheet(_, _)
SampleEachSheet(data, sheet) ==
  IF sheet > Len(data) THEN <<>>
  ELSE LET rows == data[sheet].rows
       IN  (IF Len(rows) > 0
              THEN <<Snippet("sample", sheet, 1, SampleText(data[sheet].name, rows[1]))>>
              ELSE <<>>)
           \o SampleEachSheet(data, sheet + 1)

\* Mutant of slice: the last end elements, as slice(-end)
sliceLast(seq, end) ==
  SubSeq(seq, IF end < Len(seq) THEN Len(seq) - end + 1 ELSE 1, Len(seq))

\* relevantContent.slice(0, end)
slice(seq, end) == SubSeq(seq, 1, IF end < Len(seq) THEN end ELSE Len(seq))

\* Mutant of Returned: the cap is applied after the sample fallback too
ReturnedCapped(data, found) ==
  slice(IF Len(found) = 0 THEN SampleEachSheet(data, 1) ELSE found, MaxContext)

\* Mutant of Returned: the matches are never truncated
ReturnedUncut(data, found) ==
  IF Len(found) = 0 THEN SampleEachSheet(data, 1) ELSE found

\* Mutant of Returned: no sample fallback
ReturnedNoSample(data, found) ==
  IF Len(found) > MaxContext THEN slice(found, MaxContext) ELSE found

\* The value findRelevantContent returns, given the local relevantContent
Returned(data, found) ==
  IF Len(found) > MaxContext THEN slice(found, MaxContext)
  ELSE IF Len(found) = 0 THEN SampleEachSheet(data, 1)
  ELSE found

\* findRelevantContent(q) over the dataset data, as a function
Select(data, q) == Returned(data, ForEachSheet(data, 1, Keywords(q)))

----------------------------------------------------------------------------
(* Inputs *)

MaxSheets == 24
SmallSheets == 2
MaxRows == 3
TallRows == 12

RowPool ==
  << <<Entry(<<"c","i","t","y">>, StringValue(<<"P","a","r","i","s">>)), Entry(<<"n","o","t","e">>, StringValue(<<"n","i","c","e"," ","w","e","a","t","h","e","r">>))>>,
     <<Entry(<<"c","i","t","y">>, StringValue(<<"R","O","M","E">>)), Entry(<<"n","o","t","e">>, StringValue(<<"R","a","i","n","y">>))>>,
     <<Entry(<<"i","d">>, NumberValue(7)), Entry(<<"o","k">>, BooleanValue(TRUE)),
       Entry(<<"n","o","t","e">>, NullValue)>>,
     <<Entry(<<"n","o","t","e">>, StringValue(<<"C","o","m","P","A","R","I","S","o","n">>)), Entry(<<"t","a","g">>, StringValue(<<"a","\t","b">>))>> >>

\* Row rowIndex of sheet number sheet in the dataset numbered off
PoolRow(sheet, rowIndex, off) ==
  RowPool[((sheet - 1 + rowIndex + off) % Len(RowPool)) + 1]

SheetName(sheet) == <<"S","h","e","e","t">> \o Decimal(sheet)

\* n sheets named Sheet1..Sheetn; every gap-th sheet has no rows (gap > 0),
\* the others have c rows
Dataset(n, c, off, gap) ==
  [sheet \in 1..n |->
     [name |-> SheetName(sheet),
      rows |-> IF gap > 0 /\ sheet % gap = 0 THEN <<>>
               ELSE [r \in 1..c |-> PoolRow(sheet, r - 1, off)]]]

\* Few sheets, in every shape
SmallDatasets ==
  { Dataset(n, c, off, gap) :
      n \in 0..SmallSheets, c \in 0..MaxRows, off \in 0..(Len(RowPool) - 1),
      gap \in {0, 2} }

\* More sheets than MaxContext, some of them without rows
LargeDatasets ==
  { Dataset(MaxSheets, c, off, gap) :
      c \in {1, MaxRows}, off \in {0, 1}, gap \in {0, 7} }

\* Few sheets with more rows than MaxContext
TallDatasets == { Dataset(SmallSheets, TallRows, off, 0) : off \in {0, 1} }

Datasets == SmallDatasets \cup LargeDatasets \cup TallDatasets

ExampleQuery ==
  <<"w","e","a","t","h","e","r"," ","i","n"," ","P","a","r","i","s">>

Queries ==
  { <<>>,
    ExampleQuery,
    <<"x","y","z">>,
    <<"i","s"," ","t","h","e"," ","o","f">>,
    <<"a","n"," ","o","k"," ","i","d">>,
    <<"P","A","R","I","S">>,
    <<"R","o","m","e","?">>,
    <<"N","o","t","e">>,
    <<"t","h","e","\t","c","i","t","y">>,
    <<"r","a","i","n","y"," "," ","r","o","m","e">>,
    <<"n","u","l","l">> }

----------------------------------------------------------------------------
(* The state machine *)

\* The selector before its first call, over the dataset data
SelectorInit(data) ==
  /\ documentData = data
  /\ called = FALSE
  /\ query = <<>>
  /\ keywords = <<>>
  /\ relevantContent = <<>>
  /\ context = <<>>

\* ChatInterface as constructed: the useState initial values
ChatInit ==
  /\ messages = <<>>
  /\ inputValue = <<>>
  /\ isLoading = FALSE
  /\ isDataProcessed = FALSE

\* No completion requested yet
CompletionInit ==
  /\ completionCall = [prompt |-> <<>>, context |-> [given |-> FALSE, items |-> <<>>]]
  /\ request = <<>>
  /\ completion = "idle"

\* AzureSearchService as constructed, no search made yet
SearchInit ==
  /\ currentIndexName = <<>>
  /\ searchQuery = [query |-> <<>>, top |-> 0, keywords |-> <<>>]
  /\ searchPc = "idle"
  /\ requests = <<>>
  /\ answers = <<>>
  /\ searchResult = [kind |-> "none", value |-> <<>>]
  /\ createResult = <<>>

\* KeyPhraseExtraction as mounted, the language service constructed with
\* (credentials = TRUE) or without its endpoint and key
KeyPhraseInit(credentials) ==
  /\ hasCredentials = credentials
  /\ results = <<>>
  /\ isProcessing = FALSE
  /\ processing = [state |-> "idle", sheet |-> 0, i |-> 0, documents |-> <<>>]
  /\ allKeyPhrases = <<>>
  /\ submitted = <<>>
  /\ analyzed = <<>>
  /\ outcomes = <<>>

\* SentimentAnalysis as mounted; no method of the language service called yet
SentimentInit ==
  /\ sentimentResults = <<>>
  /\ sentimentIsProcessing = FALSE
  /\ sentimentRun = [state |-> "idle", sheet |-> 0, text |-> <<>>]
  /\ sentimentCalls = <<>>
  /\ resolved = [method |-> "none", threw |-> FALSE, value |-> <<>>]

\* The proxy server as started, with (configured = TRUE) or without the
\* search endpoint and key in its environment
ServerInit(configured) ==
  /\ searchConfigured = configured
  /\ reqDocuments = [isArray |-> FALSE, items |-> <<>>]
  /\ createPc = "idle"
  /\ uploadOffset = 0
  /\ upstream = <<>>
  /\ upstreamAnswers = <<>>
  /\ responses = <<>>
  /\ proxyRequest = [method |-> "GET", url |-> <<"/">>, body |-> <<>>,
                     sentKey |-> FALSE]
  /\ proxyPc = "idle"
  /\ forwarded = <<>>
  /\ proxyResponses = <<>>

\* The application loaded with every credential set and a file uploaded: the
\* three components are mounted
AppMounted ==
  /\ openAIConfigured = TRUE
  /\ appState = "mounted"
  /\ isDataUploaded = TRUE

BackendInit ==
  SearchInit /\ KeyPhraseInit(TRUE) /\ SentimentInit /\ ServerInit(TRUE) /\ AppMounted

Init ==
  /\ \E data \in Datasets : SelectorInit(data)
  /\ BackendInit
  /\ log = <<>>
  /\ ChatInit
  /\ CompletionInit

\* Mutant of findRelevantContent: the array relevantContent is kept from one
\* call to the next instead of being created by each call
findRelevantContentRetaining(q) ==
  /\ called' = TRUE
  /\ query' = q
  /\ LET kws == Keywords(q)
         found == relevantContent \o ForEachSheet(documentData, 1, kws)
     IN  /\ keywords' = kws
         /\ relevantContent' = found
         /\ context' = Returned(documentData, found)
  /\ UNCHANGED documentData

\* Mutant of findRelevantContent: the sample is taken with rows.shift(), which
\* removes the first row of every sheet on the fallback path
findRelevantContentShifting(q) ==
  /\ called' = TRUE
  /\ query' = q
  /\ LET kws == Keywords(q)
         found == ForEachSheet(documentData, 1, kws)
     IN  /\ keywords' = kws
         /\ relevantContent' = found
         /\ context' = Returned(documentData, found)
         /\ documentData' =
              IF Len(found) = 0
                THEN [sh \in DOMAIN documentData |->
                        [name |-> documentData[sh].name,
                         rows |-> IF documentData[sh].rows = <<>> THEN <<>>
                                  ELSE Tail(documentData[sh].rows)]]
                ELSE documentData

\* Mutant of findRelevantContent: an error is thrown when no row matches, so
\* the call returns nothing
findRelevantContentThrowing(q) ==
  /\ query' = q
  /\ LET kws == Keywords(q)
         found == ForEachSheet(documentData, 1, kws)
     IN  /\ keywords' = kws
         /\ relevantContent' = found
         /\ called' = (found # <<>>)
         /\ context' = IF found # <<>> THEN Returned(documentData, found) ELSE <<>>
  /\ UNCHANGED documentData

\* One call findRelevantContent(q)
findRelevantContent(q) ==
  /\ called' = TRUE
  /\ query' = q
  /\ LET kws == Keywords(q)
         found == ForEachSheet(documentData, 1, kws)
     IN  /\ keywords' = kws
         /\ relevantContent' = found
         /\ context' = Returned(documentData, found)
  /\ UNCHANGED documentData

Next ==
  \E q \in Queries :
    findRelevantContent(q) /\ UNCHANGED <<log, chatVars, completionVars, backendVars, appVars>>

Spec == Init /\ [][Next]_vars

----------------------------------------------------------------------------
(* Repeated calls, with their history *)

MaxCalls == 3

LoggedDatasets ==
  { Dataset(n, MaxRows, off, 0) : n \in 1..SmallSheets, off \in {0, 1} }

LoggedQueries ==
  { ExampleQuery,
    <<"x","y","z">>,
    <<"P","A","R","I","S">>,
    <<"N","o","t","e">>,
    <<"a","n"," ","o","k"," ","i","d">> }

LoggedInit ==
  /\ \E data \in LoggedDatasets : SelectorInit(data)
  /\ BackendInit
  /\ log = <<>>
  /\ ChatInit
  /\ CompletionInit

\* A call, recorded in the history
LoggedCall(q) ==
  /\ Len(log) < MaxCalls
  /\ findRelevantContent(q)
  /\ log' = Append(log, [query |-> q, context |-> context'])
  /\ UNCHANGED <<chatVars, completionVars, backendVars, appVars>>

LoggedNext == \E q \in LoggedQueries : LoggedCall(q)

LoggedSpec == LoggedInit /\ [][LoggedNext]_vars

----------------------------------------------------------------------------
(* AzureOpenAIService.generateCompletion and ChatInterface.handleSendMessage *)

systemMessage ==
  <<"Y","o","u"," ","a","r","e"," ","a"," ","h","e","l","p","f","u","l",
    " ","a","s","s","i","s","t","a","n","t"," ","t","h","a","t"," ","p",
    "r","o","v","i","d","e","s"," ","a","n","a","l","y","s","i","s"," ",
    "o","f"," ","s","p","r","e","a","d","s","h","e","e","t"," ","d","a",
    "t","a","."," ","F","o","r","m","a","t"," ","y","o","u","r"," ","r",
    "e","s","p","o","n","s","e","s"," ","u","s","i","n","g"," ","m","a",
    "r","k","d","o","w","n"," ","w","h","e","r","e"," ","a","p","p","r",
    "o","p","r","i","a","t","e","."," ","U","s","e"," ","t","a","b","l",
    "e","s"," ","f","o","r"," ","t","a","b","u","l","a","r"," ","d","a",
    "t","a",","," ","c","o","d","e"," ","b","l","o","c","k","s"," ","f",
    "o","r"," ","c","o","d","e"," ","o","r"," ","s","t","r","u","c","t",
    "u","r","e","d"," ","c","o","n","t","e","n","t",","," ","a","n","d",
    " ","h","e","a","d","i","n","g","s"," ","f","o","r"," ","o","r","g",
    "a","n","i","z","a","t","i","o","n",".">>

GroundingHeader ==
  <<"H","e","r","e"," ","i","s"," ","t","h","e"," ","r","e","l","e","v",
    "a","n","t"," ","d","a","t","a"," ","f","r","o","m"," ","t","h","e",
    " ","u","s","e","r","'","s"," ","s","p","r","e","a","d","s","h","e",
    "e","t","s",":","\n","\n">>

GroundingInstruction ==
  <<"U","s","e"," ","t","h","e"," ","d","a","t","a"," ","p","r","o","v",
    "i","d","e","d"," ","a","b","o","v","e"," ","t","o"," ","a","n","s",
    "w","e","r"," ","t","h","e"," ","u","s","e","r","'","s"," ","q","u",
    "e","s","t","i","o","n","."," ","F","o","r","m","a","t"," ","y","o",
    "u","r"," ","r","e","s","p","o","n","s","e"," ","w","i","t","h"," ",
    "m","a","r","k","d","o","w","n","."," ","I","f"," ","t","h","e"," ",
    "a","n","s","w","e","r"," ","i","s","n","'","t"," ","i","n"," ","t",
    "h","e"," ","d","a","t","a",","," ","s","a","y"," ","y","o","u"," ",
    "d","o","n","'","t"," ","h","a","v","e"," ","t","h","a","t"," ","i",
    "n","f","o","r","m","a","t","i","o","n"," ","a","n","d"," ","p","r",
    "o","v","i","d","e"," ","a"," ","g","e","n","e","r","a","l"," ","r",
    "e","s","p","o","n","s","e",".">>

UngroundedNotice ==
  <<"I"," ","d","o","n","'","t"," ","h","a","v","e"," ","s","p","e","c",
    "i","f","i","c"," ","d","a","t","a"," ","t","o"," ","r","e","f","e",
    "r","e","n","c","e"," ","f","o","r"," ","t","h","i","s"," ","q","u",
    "e","r","y","."," ","I","'","l","l"," ","r","e","s","p","o","n","d",
    " ","b","a","s","e","d"," ","o","n"," ","g","e","n","e","r","a","l",
    " ","k","n","o","w","l","e","d","g","e","."," ","F","o","r","m","a",
    "t"," ","y","o","u","r"," ","r","e","s","p","o","n","s","e"," ","w",
    "i","t","h"," ","m","a","r","k","d","o","w","n"," ","w","h","e","r",
    "e"," ","a","p","p","r","o","p","r","i","a","t","e",".">>

NoResponseGenerated ==
  <<"N","o"," ","r","e","s","p","o","n","s","e"," ","g","e","n","e","r",
    "a","t","e","d">>

Apology ==
  <<"I","'","m"," ","s","o","r","r","y",","," ","I"," ","e","n","c","o",
    "u","n","t","e","r","e","d"," ","a","n"," ","e","r","r","o","r"," ",
    "p","r","o","c","e","s","s","i","n","g"," ","y","o","u","r"," ","r",
    "e","q","u","e","s","t",".">>

DataLoadedPrefix ==
  <<"D","a","t","a"," ","l","o","a","d","e","d"," ","s","u","c","c","e",
    "s","s","f","u","l","l","y"," ","f","r","o","m"," ">>

DataLoadedSuffix ==
  <<" ","s","h","e","e","t","s","."," ","Y","o","u"," ","c","a","n"," ",
    "n","o","w"," ","a","s","k"," ","q","u","e","s","t","i","o","n","s",
    " ","a","b","o","u","t"," ","y","o","u","r"," ","d","a","t","a",".">>

Message(role, content) == [role |-> role, content |-> content]

\* The optional parameter context?: string[], given or absent
Given(items) == [given |-> TRUE, items |-> items]
Absent == [given |-> FALSE, items |-> <<>>]

\* Mutant of CompletionMessages: the context strings are joined with ", "
CompletionMessagesCommaJoined(prompt, ctx) ==
  <<Message("system", systemMessage)>>
  \o (IF ctx.given /\ Len(ctx.items) > 0
        THEN <<Message("system", GroundingHeader \o join(ctx.items, <<",", " ">>)),
               Message("system", GroundingInstruction)>>
        ELSE <<Message("system", UngroundedNotice)>>)
  \o <<Message("user", prompt)>>

\* The messages array generateCompletion(prompt, context) builds
CompletionMessages(prompt, ctx) ==
  <<Message("system", systemMessage)>>
  \o (IF ctx.given /\ Len(ctx.items) > 0
        THEN <<Message("system", GroundingHeader \o join(ctx.items, <<"\n", "\n">>)),
               Message("system", GroundingInstruction)>>
        ELSE <<Message("system", UngroundedNotice)>>)
  \o <<Message("user", prompt)>>

\* generateCompletion up to its await: the request is handed to the client
generateCompletion(prompt, ctx) ==
  /\ completionCall' = [prompt |-> prompt, context |-> ctx]
  /\ request' = CompletionMessages(prompt, ctx)
  /\ completion' = "pending"

\* What getChatCompletions may answer: a response whose first choice has the
\* content text, a response whose first choice has no content, a response
\* without choices, or a rejection
Answers ==
  { [kind |-> "content", text |-> <<"O", "K">>],
    [kind |-> "noContent", text |-> <<>>],
    [kind |-> "noChoices", text |-> <<>>],
    [kind |-> "rejected", text |-> <<>>] }

\* generateCompletion throws (rethrows) on this answer
Throws(answer) == answer.kind \in {"noChoices", "rejected"}

\* response.choices[0].message?.content || "No response generated"
CompletionText(answer) ==
  IF answer.kind = "content" /\ answer.text # <<>> THEN answer.text
  ELSE NoResponseGenerated

\* String.prototype.trim
RECURSIVE trimStart(_)
trimStart(s) ==
  IF s # <<>> /\ Head(s) \in WhitespaceChars THEN trimStart(Tail(s)) ELSE s

RECURSIVE trimEnd(_)
trimEnd(s) ==
  IF s # <<>> /\ s[Len(s)] \in WhitespaceChars
    THEN trimEnd(SubSeq(s, 1, Len(s) - 1))
    ELSE s

trim(s) == trimEnd(trimStart(s))

\* The strings returned by findRelevantContent
Texts(snippets) == [i \in DOMAIN snippets |-> snippets[i].text]

\* useEffect: the system message when data is loaded
DataLoadedEffect ==
  /\ Len(documentData) > 0
  /\ ~isDataProcessed
  /\ messages' =
       <<Message("system",
                 DataLoadedPrefix \o Decimal(Len(documentData)) \o DataLoadedSuffix)>>
  /\ isDataProcessed' = TRUE
  /\ UNCHANGED <<inputValue, isLoading, selectorVars, log, completionVars,
                 backendVars, appVars>>

\* The text input and the Send button are enabled
InputEnabled == ~(isLoading \/ ~isDataProcessed \/ Len(documentData) = 0)
ButtonEnabled == ~(trim(inputValue) = <<>> \/ isLoading \/ ~isDataProcessed)

\* onChange of the text input
SetInputValue(v) ==
  /\ InputEnabled
  /\ inputValue' = v
  /\ UNCHANGED <<messages, isLoading, isDataProcessed, selectorVars, log,
                 completionVars, backendVars, appVars>>

MaxTurns == 2

UserTurns == Cardinality({ i \in DOMAIN messages : messages[i].role = "user" })

\* Mutant of handleSendMessageBody: the guard does not test the input
handleSendMessageBodyBlank ==
  IF isLoading
    THEN UNCHANGED <<selectorVars, chatVars, completionVars, backendVars, appVars>>
    ELSE LET userMessage == trim(inputValue)
         IN  /\ isLoading' = TRUE
             /\ inputValue' = <<>>
             /\ messages' = Append(messages, Message("user", userMessage))
             /\ findRelevantContent(userMessage)
             /\ generateCompletion(userMessage, Given(Texts(context')))
             /\ UNCHANGED <<isDataProcessed, backendVars, appVars>>

\* The statements of handleSendMessage up to its await
handleSendMessageBody ==
  IF trim(inputValue) = <<>> \/ isLoading
    THEN UNCHANGED <<selectorVars, chatVars, completionVars, backendVars, appVars>>
    ELSE LET userMessage == trim(inputValue)
         IN  /\ isLoading' = TRUE
             /\ inputValue' = <<>>
             /\ messages' = Append(messages, Message("user", userMessage))
             /\ findRelevantContent(userMessage)
             /\ generateCompletion(userMessage, Given(Texts(context')))
             /\ UNCHANGED <<isDataProcessed, backendVars, appVars>>

\* handleSendMessage up to its await
handleSendMessage == handleSendMessageBody /\ UNCHANGED log

\* Enter in the text input, a click on Send
PressEnter == InputEnabled /\ UserTurns < MaxTurns /\ handleSendMessage
ClickSend == ButtonEnabled /\ UserTurns < MaxTurns /\ handleSendMessage

\* Mutant of CompletionFails: no finally block, isLoading is not reset
CompletionFailsStillLoading(answer) ==
  /\ completion = "pending"
  /\ Throws(answer)
  /\ completion' = "rejected"
  /\ messages' = Append(messages, Message("assistant", Apology))
  /\ UNCHANGED <<isLoading, inputValue, isDataProcessed, completionCall, request,
                 selectorVars, log, backendVars, appVars>>

\* Mutant of CompletionFails: the catch block appends no message
CompletionFailsSilently(answer) ==
  /\ completion = "pending"
  /\ Throws(answer)
  /\ completion' = "rejected"
  /\ isLoading' = FALSE
  /\ UNCHANGED <<messages, inputValue, isDataProcessed, completionCall, request,
                 selectorVars, log, backendVars, appVars>>

\* handleSendMessage after its await: the completion arrived
CompletionArrives(answer) ==
  /\ completion = "pending"
  /\ ~Throws(answer)
  /\ completion' = "resolved"
  /\ messages' = Append(messages, Message("assistant", CompletionText(answer)))
  /\ isLoading' = FALSE
  /\ UNCHANGED <<inputValue, isDataProcessed, completionCall, request,
                 selectorVars, log, backendVars, appVars>>

\* handleSendMessage after its await: generateCompletion threw, the catch and
\* the finally blocks run
CompletionFails(answer) ==
  /\ completion = "pending"
  /\ Throws(answer)
  /\ completion' = "rejected"
  /\ messages' = Append(messages, Message("assistant", Apology))
  /\ isLoading' = FALSE
  /\ UNCHANGED <<inputValue, isDataProcessed, completionCall, request,
                 selectorVars, log, backendVars, appVars>>

ChatDatasets ==
  { Dataset(0, 0, 0, 0), Dataset(1, 0, 0, 0), Dataset(1, 2, 0, 0),
    Dataset(2, 1, 1, 0) }

ChatInputs ==
  { <<>>,
    <<" ", "\t">>,
    <<" ", "P", "A", "R", "I", "S", " ">>,
    <<"x", "y", "z">> }

ChatSpecInit ==
  /\ \E data \in ChatDatasets : SelectorInit(data)
  /\ BackendInit
  /\ log = <<>>
  /\ ChatInit
  /\ CompletionInit

ChatNext ==
  \/ DataLoadedEffect
  \/ \E v \in ChatInputs : SetInputValue(v)
  \/ PressEnter
  \/ ClickSend
  \/ \E answer \in Answers : CompletionArrives(answer)
  \/ \E answer \in Answers : CompletionFails(answer)

ChatSpec == ChatSpecInit /\ [][ChatNext]_vars

\* The pending completion settles: getChatCompletions resolves or rejects
CompletionSettlesInChat ==
  \/ \E answer \in Answers : CompletionArrives(answer)
  \/ \E answer \in Answers : CompletionFails(answer)

\* The chat under the assumption that every request to the client settles
ChatLiveSpec == ChatSpec /\ WF_vars(CompletionSettlesInChat)

MaxAttempts == 3

\* handleSendMessage called, whatever the state of the controls (its guard at
\* line 103 is its own); the history records the state it was called in
SendAttempt ==
  /\ Len(log) < MaxAttempts
  /\ UserTurns < MaxTurns
  /\ log' = Append(log, [loading |-> isLoading, blank |-> trim(inputValue) = <<>>])
  /\ handleSendMessageBody

AttemptNext ==
  \/ DataLoadedEffect
  \/ \E v \in ChatInputs : SetInputValue(v)
  \/ SendAttempt
  \/ \E answer \in Answers : CompletionArrives(answer)
  \/ \E answer \in Answers : CompletionFails(answer)

AttemptSpec == ChatSpecInit /\ [][AttemptNext]_vars

\* generateCompletion called on its own, with any prompt and context
CompletionPrompts ==
  { <<>>, <<"h", "i">>, <<"x", "y", "z">>, <<"N", "o", "t", "e">>, ExampleQuery }

CompletionContexts ==
  {Absent} \cup
  { Given(Texts(Select(data, q))) : data \in ChatDatasets, q \in Queries }

CompletionCall(prompt, ctx) ==
  /\ completion # "pending"
  /\ generateCompletion(prompt, ctx)
  /\ UNCHANGED <<selectorVars, log, chatVars, backendVars, appVars>>

\* The client answers: generateCompletion returns or throws
CompletionSettles(answer) ==
  /\ completion = "pending"
  /\ completion' = IF Throws(answer) THEN "rejected" ELSE "resolved"
  /\ UNCHANGED <<completionCall, request, selectorVars, log, chatVars,
                 backendVars, appVars>>

CompletionSpecInit ==
  /\ SelectorInit(<<>>)
  /\ BackendInit
  /\ log = <<>>
  /\ ChatInit
  /\ CompletionInit

CompletionNext ==
  \/ \E prompt \in CompletionPrompts, ctx \in CompletionContexts :
       CompletionCall(prompt, ctx)
  \/ \E answer \in Answers : CompletionSettles(answer)

CompletionSpec == CompletionSpecInit /\ [][CompletionNext]_vars

----------------------------------------------------------------------------
(* AzureSearchService.searchDocuments and fallbackSearch *)

\* s.split(/\s+/): the pieces between the maximal runs of whitespace, an
\* empty piece first when s starts with whitespace (or is empty) and an empty
\* piece last when it ends with whitespace
splitWhitespace(s) ==
  LET n == Len(s)
      IsSpace(i) == s[i] \in WhitespaceChars
      starts == { i \in 1..n : ~IsSpace(i) /\ (i = 1 \/ IsSpace(i - 1)) }
      EndOf(i) == CHOOSE j \in i..n :
                    /\ \A k \in i..j : ~IsSpace(k)
                    /\ (j = n \/ IsSpace(j + 1))
      Nth(k) == CHOOSE i \in starts : Cardinality({ j \in starts : j < i }) = k - 1
      pieces == [k \in 1..Cardinality(starts) |-> SubSeq(s, Nth(k), EndOf(Nth(k)))]
  IN  (IF n = 0 \/ IsSpace(1) THEN << <<>> >> ELSE <<>>)
      \o pieces
      \o (IF n > 0 /\ IsSpace(n) THEN << <<>> >> ELSE <<>>)

\* word.replace(/[^\w]/g, '')
StripNonWord(word) == SelectSeq(word, LAMBDA c : c \in WordChars)

\* fallbackSearch: words
FallbackWords(q) ==
  LET long == SelectSeq(splitWhitespace(q), LAMBDA word : Len(word) > 2)
  IN  [i \in DOMAIN long |-> StripNonWord(long[i])]

OrSeparator == <<" ", "O", "R", " ">>

\* Mutant of longestWord: the first word
firstWord(words) == words[1]

\* words.sort((a, b) => b.length - a.length)[0]: the sort is stable, so the
\* first of the longest words
longestWord(words) ==
  LET longest == CHOOSE i \in DOMAIN words :
                   /\ \A j \in DOMAIN words : Len(words[j]) <= Len(words[i])
                   /\ \A j \in 1..(i - 1) : Len(words[j]) < Len(words[i])
  IN  words[longest]

DefaultTop == 10

\* The body of the primary request
PrimaryRequest(q, top) ==
  [index |-> currentIndexName, search |-> q, queryType |-> "full", searchMode |-> "any", top |-> top]

\* The body of the OR request of fallbackSearch
FallbackRequest(words, top) ==
  [index |-> currentIndexName, search |-> join(words, OrSeparator), queryType |-> "simple",
   searchMode |-> "any", top |-> top * 2]

\* The body of the last-resort request of fallbackSearch
LastResortRequest(words, top) ==
  [index |-> currentIndexName, search |-> longestWord(words), queryType |-> "simple",
   searchMode |-> "any", top |-> top]

MockContentPrefix == <<"T", "h", "i", "s", " ", "i", "s", " ", "m", "o", "c", "k", " ", "c", "o", "n", "t", "e", "n", "t", " ", "r", "e", "l", "a", "t", "e", "d", " ", "t", "o", " ", "\"">>
MockInformationPrefix == <<"A", "d", "d", "i", "t", "i", "o", "n", "a", "l", " ", "i", "n", "f", "o", "r", "m", "a", "t", "i", "o", "n", " ", "a", "b", "o", "u", "t", " ", "\"">>
MockInformationSuffix == <<"\"", " ", "a", "n", "d", " ", "r", "e", "l", "a", "t", "e", "d", " ", "t", "o", "p", "i", "c", "s">>

\* getMockSearchResults
getMockSearchResults(q) ==
  [kind |-> "mock",
   value |-> << [id |-> "mock-1", content |-> MockContentPrefix \o q \o <<"\"">>],
                [id |-> "mock-2",
                 content |-> MockInformationPrefix \o q \o MockInformationSuffix] >>]

\* The stop words of extractKeywords
searchStopWords ==
  { <<"a">>, <<"a", "b", "o", "u", "t">>, <<"a", "b", "o", "v", "e">>,
    <<"a", "f", "t", "e", "r">>, <<"a", "g", "a", "i", "n">>, <<"a", "g", "a", "i", "n", "s", "t">>,
    <<"a", "l", "l">>, <<"a", "m">>, <<"a", "n">>,
    <<"a", "n", "d">>, <<"a", "n", "y">>, <<"a", "r", "e">>,
    <<"a", "s">>, <<"a", "t">>, <<"b", "e">>,
    <<"b", "e", "c", "a", "u", "s", "e">>, <<"b", "e", "e", "n">>, <<"b", "e", "f", "o", "r", "e">>,
    <<"b", "e", "i", "n", "g">>, <<"b", "e", "l", "o", "w">>, <<"b", "e", "t", "w", "e", "e", "n">>,
    <<"b", "o", "t", "h">>, <<"b", "u", "t">>, <<"b", "y">>,
    <<"c", "a", "n">>, <<"d", "i", "d">>, <<"d", "o">>,
    <<"d", "o", "e", "s">>, <<"d", "o", "i", "n", "g">>, <<"d", "o", "n">>,
    <<"d", "o", "w", "n">>, <<"d", "u", "r", "i", "n", "g">>, <<"e", "a", "c", "h">>,
    <<"f", "e", "w">>, <<"f", "o", "r">>, <<"f", "r", "o", "m">>,
    <<"f", "u", "r", "t", "h", "e", "r">>, <<"h", "a", "d">>, <<"h", "a", "s">>,
    <<"h", "a", "v", "e">>, <<"h", "a", "v", "i", "n", "g">>, <<"h", "e">>,
    <<"h", "e", "r">>, <<"h", "e", "r", "e">>, <<"h", "e", "r", "s">>,
    <<"h", "e", "r", "s", "e", "l", "f">>, <<"h", "i", "m">>, <<"h", "i", "m", "s", "e", "l", "f">>,
    <<"h", "i", "s">>, <<"h", "o", "w">>, <<"i">>,
    <<"i", "f">>, <<"i", "n">>, <<"i", "n", "t", "o">>,
    <<"i", "s">>, <<"i", "t">>, <<"i", "t", "s">>,
    <<"i", "t", "s", "e", "l", "f">>, <<"j", "u", "s", "t">>, <<"m", "e">>,
    <<"m", "o", "r", "e">>, <<"m", "o", "s", "t">>, <<"m", "y">>,
    <<"m", "y", "s", "e", "l", "f">>, <<"n", "o">>, <<"n", "o", "r">>,
    <<"n", "o", "t">>, <<"n", "o", "w">>, <<"o", "f">>,
    <<"o", "f", "f">>, <<"o", "n">>, <<"o", "n", "c", "e">>,
    <<"o", "n", "l", "y">>, <<"o", "r">>, <<"o", "t", "h", "e", "r">>,
    <<"o", "u", "r">>, <<"o", "u", "r", "s">>, <<"o", "u", "r", "s", "e", "l", "v", "e", "s">>,
    <<"o", "u", "t">>, <<"o", "v", "e", "r">>, <<"o", "w", "n">>,
    <<"s", "a", "m", "e">>, <<"s", "h", "e">>, <<"s", "h", "o", "u", "l", "d">>,
    <<"s", "o">>, <<"s", "o", "m", "e">>, <<"s", "u", "c", "h">>,
    <<"t", "h", "a", "n">>, <<"t", "h", "a", "t">>, <<"t", "h", "e">>,
    <<"t", "h", "e", "i", "r">>, <<"t", "h", "e", "i", "r", "s">>, <<"t", "h", "e", "m">>,
    <<"t", "h", "e", "m", "s", "e", "l", "v", "e", "s">>, <<"t", "h", "e", "n">>, <<"t", "h", "e", "r", "e">>,
    <<"t", "h", "e", "s", "e">>, <<"t", "h", "e", "y">>, <<"t", "h", "i", "s">>,
    <<"t", "h", "o", "s", "e">>, <<"t", "h", "r", "o", "u", "g", "h">>, <<"t", "o">>,
    <<"t", "o", "o">>, <<"u", "n", "d", "e", "r">>, <<"u", "n", "t", "i", "l">>,
    <<"u", "p">>, <<"v", "e", "r", "y">>, <<"w", "a", "s">>,
    <<"w", "e">>, <<"w", "e", "r", "e">>, <<"w", "h", "a", "t">>,
    <<"w", "h", "e", "n">>, <<"w", "h", "e", "r", "e">>, <<"w", "h", "i", "c", "h">>,
    <<"w", "h", "i", "l", "e">>, <<"w", "h", "o">>, <<"w", "h", "o", "m">>,
    <<"w", "h", "y">>, <<"w", "i", "l", "l">>, <<"w", "i", "t", "h">>,
    <<"w", "o", "u", "l", "d">>, <<"y", "o", "u">>, <<"y", "o", "u", "r">>,
    <<"y", "o", "u", "r", "s">>, <<"y", "o", "u", "r", "s", "e", "l", "f">>, <<"y", "o", "u", "r", "s", "e", "l", "v", "e", "s">>,
    <<"t", "e", "l", "l">>, <<"m", "e">>, <<"g", "i", "v", "e">>,
    <<"i", "n", "f", "o", "r", "m", "a", "t", "i", "o", "n">>, <<"e", "x", "p", "l", "a", "i", "n">>, <<"s", "h", "o", "w">>,
    <<"f", "i", "n", "d">>, <<"s", "e", "a", "r", "c", "h">>, <<"l", "o", "o", "k">> }

\* query.toLowerCase().replace(/[^\w\s]/g, ' ').split(/\s+/)
\*   .filter(word => word.length > 1 && !stopWords.includes(word))
SearchTokens(q) ==
  SelectSeq(splitWhitespace(ReplaceNonWord(toLowerCase(q))),
            LAMBDA word : Len(word) > 1 /\ word \notin searchStopWords)

\* The phrases of extractKeywords: the tokens, then the phrases of 2 adjacent
\* tokens, then the phrases of 3
SearchPhrases(tokens) ==
  tokens
    \o [i \in 1..(Len(tokens) - 1) |-> tokens[i] \o <<" ">> \o tokens[i + 1]]
    \o [i \in 1..(Len(tokens) - 2) |->
          tokens[i] \o <<" ">> \o tokens[i + 1] \o <<" ">> \o tokens[i + 2]]

\* Mutant of extractKeywords: the phrases are returned with their repetitions
extractKeywordsRepeating(q) == SearchPhrases(SearchTokens(q))

\* extractKeywords
extractKeywords(q) == Unique(SearchPhrases(SearchTokens(q)))

\* What the proxy may answer to a search request: documents, an empty value
\* array, a body without a value field, a body whose value field is a
\* non-empty string, or an error
SearchAnswers == {"results", "empty", "malformed", "text", "error"}

\* The documents of a "results" answer
FoundDocuments == [kind |-> "results", value |-> <<[id |-> "doc-0", content |-> <<"h", "i", "t">>]>>]

\* The value field of a "text" answer
FoundText == [kind |-> "text", value |-> <<"o", "o", "p", "s">>]

\* response.data && response.data.value && response.data.value.length > 0
HasValue(answer) == answer \in {"results", "text"}

\* response.data.value
ResponseValue(answer) == IF answer = "text" THEN FoundText ELSE FoundDocuments

\* The index names the server may generate
IndexNames ==
  { <<"t", "e", "m", "p", "-", "i", "n", "d", "e", "x", "-", "1">>,
    <<"t", "e", "m", "p", "-", "i", "n", "d", "e", "x", "-", "2">> }

\* What the server may answer to the create-index request: a body with the
\* index name, a body without it, or an error
CreateIndexAnswers == {"indexName", "noIndexName", "error"}

\* Mutant of createTempIndex: a failure forgets the current index
createTempIndexForgetting(answer, indexName) ==
  /\ searchPc \in {"idle", "done"}
  /\ IF answer = "indexName"
       THEN currentIndexName' = indexName /\ createResult' = <<TRUE>>
       ELSE currentIndexName' = <<>> /\ createResult' = <<FALSE>>
  /\ UNCHANGED <<searchQuery, searchPc, requests, answers, searchResult, frontVars,
                 keyPhraseVars, sentimentVars, serverVars>>

\* createTempIndex, the request answered
createTempIndex(answer, indexName) ==
  /\ searchPc \in {"idle", "done"}
  /\ IF answer = "indexName"
       THEN currentIndexName' = indexName /\ createResult' = <<TRUE>>
       ELSE UNCHANGED currentIndexName /\ createResult' = <<FALSE>>
  /\ UNCHANGED <<searchQuery, searchPc, requests, answers, searchResult, frontVars,
                 keyPhraseVars, sentimentVars, serverVars>>

\* searchDocuments returns value
SearchReturns(value) ==
  /\ searchResult' = value
  /\ searchPc' = "done"

\* fallbackSearch up to its first await, or to its return without a request
fallbackSearch(q, top) ==
  LET words == FallbackWords(q)
  IN  IF Len(words) = 0
        THEN /\ SearchReturns(getMockSearchResults(q))
             /\ UNCHANGED requests
        ELSE /\ requests' = Append(requests, FallbackRequest(words, top))
             /\ searchPc' = "fallback"
             /\ UNCHANGED searchResult

\* searchDocuments up to its await, or to its return without a request
searchDocuments(q, top) ==
  /\ searchPc \in {"idle", "done"}
  /\ searchQuery' = [query |-> q, top |-> top,
                     keywords |-> IF currentIndexName = <<>> THEN <<>>
                                  ELSE extractKeywords(q)]
  /\ answers' = <<>>
  /\ IF currentIndexName = <<>>
       THEN /\ requests' = <<>>
            /\ SearchReturns(getMockSearchResults(q))
       ELSE /\ requests' = <<PrimaryRequest(q, top)>>
            /\ searchPc' = "primary"
            /\ UNCHANGED searchResult
  /\ UNCHANGED <<currentIndexName, createResult, frontVars, keyPhraseVars, sentimentVars,
                 serverVars>>

\* searchDocuments after the await of the primary request
PrimaryAnswered(answer) ==
  /\ searchPc = "primary"
  /\ answers' = Append(answers, answer)
  /\ CASE HasValue(answer) ->
            SearchReturns(ResponseValue(answer)) /\ UNCHANGED requests
       [] answer = "malformed" ->
            SearchReturns(getMockSearchResults(searchQuery.query))
            /\ UNCHANGED requests
       [] OTHER -> fallbackSearch(searchQuery.query, searchQuery.top)
  /\ UNCHANGED <<currentIndexName, createResult, searchQuery, frontVars,
                 keyPhraseVars, sentimentVars, serverVars>>

\* fallbackSearch after the await of the OR request
FallbackAnswered(answer) ==
  /\ searchPc = "fallback"
  /\ answers' = Append(answers, answer)
  /\ CASE HasValue(answer) ->
            SearchReturns(ResponseValue(answer)) /\ UNCHANGED requests
       [] answer = "error" ->
            SearchReturns(getMockSearchResults(searchQuery.query))
            /\ UNCHANGED requests
       [] OTHER ->
            /\ requests' =
                 Append(requests,
                        LastResortRequest(FallbackWords(searchQuery.query),
                                          searchQuery.top))
            /\ searchPc' = "lastResort"
            /\ UNCHANGED searchResult
  /\ UNCHANGED <<currentIndexName, createResult, searchQuery, frontVars,
                 keyPhraseVars, sentimentVars, serverVars>>

\* fallbackSearch after the await of the last-resort request
LastResortAnswered(answer) ==
  /\ searchPc = "lastResort"
  /\ answers' = Append(answers, answer)
  /\ IF HasValue(answer)
       THEN SearchReturns(ResponseValue(answer))
       ELSE SearchReturns(getMockSearchResults(searchQuery.query))
  /\ UNCHANGED <<requests, currentIndexName, createResult, searchQuery, frontVars,
                 keyPhraseVars, sentimentVars, serverVars>>

SearchQueries ==
  { <<"h", "i">>,
    <<"t", "o", " ", "b", "e">>,
    <<"b", "i", "g", " ", "w", "e", "a", "t", "h", "e", "r", " ", "i", "n", " ", "P", "a", "r", "i", "s", "?">>,
    <<" ", "r", "o", "m", "e">>,
    <<"x", "y", "z", " ", "a", "b", "c">>,
    <<"a", " ", "?", "?", "?", " ", "b">>,
    <<"R", "o", "m", "e", " ", " ", "r", "a", "i", "n", "y", "\t", "d", "a", "y", "s">> }

SearchTops == {DefaultTop, 3}

SearchSpecInit ==
  /\ SelectorInit(<<>>)
  /\ log = <<>>
  /\ ChatInit
  /\ CompletionInit
  /\ BackendInit

SearchNext ==
  \/ \E answer \in CreateIndexAnswers, indexName \in IndexNames :
       createTempIndex(answer, indexName)
  \/ \E q \in SearchQueries, top \in SearchTops : searchDocuments(q, top)
  \/ \E answer \in SearchAnswers : PrimaryAnswered(answer)
  \/ \E answer \in SearchAnswers : FallbackAnswered(answer)
  \/ \E answer \in SearchAnswers : LastResortAnswered(answer)

SearchSpec == SearchSpecInit /\ [][SearchNext]_vars

\* The two keyword extractions, of the search service and of the chat, on the
\* same queries
KeywordQueries ==
  { <<"R", "o", "m", "e", " ", "r", "a", "i", "n", "y", " ", "R", "o", "m", "e", " ", "r", "a", "i", "n", "y", " ", "R", "o", "m", "e">>,
    <<"t", "o", " ", "b", "e">>,
    <<"b", "i", "g", " ", "w", "e", "a", "t", "h", "e", "r", " ", "i", "n", " ", "P", "a", "r", "i", "s", "?">>,
    <<"t", "h", "e", "\t", "c", "i", "t", "y", " ", "o", "k">>,
    <<" ", "T", "e", "l", "l", " ", "m", "e", " ", "a", "b", "o", "u", "t", " ", "R", "O", "M", "E", " ", " ", "w", "e", "a", "t", "h", "e", "r", "_", "2", "0", "2", "4", " ">> }

KeywordSpecInit ==
  /\ SelectorInit(Dataset(1, 2, 0, 0))
  /\ log = <<>>
  /\ ChatInit
  /\ CompletionInit
  /\ BackendInit

KeywordNext ==
  \/ \E indexName \in IndexNames : createTempIndex("indexName", indexName)
  \/ \E q \in KeywordQueries : searchDocuments(q, DefaultTop)
  \/ \E answer \in {"results", "error"} : PrimaryAnswered(answer)
  \/ \E answer \in {"results", "empty"} : FallbackAnswered(answer)
  \/ \E answer \in {"results", "empty"} : LastResortAnswered(answer)
  \/ \E q \in KeywordQueries :
       findRelevantContent(q)
       /\ UNCHANGED <<log, chatVars, completionVars, backendVars, appVars>>

KeywordSpec == KeywordSpecInit /\ [][KeywordNext]_vars

----------------------------------------------------------------------------
(* KeyPhraseExtraction.processSheets and AzureLanguageService.extractKeyPhrases *)

textColumnHints ==
  { <<"d", "e", "s", "c", "r", "i", "p", "t", "i", "o", "n">>,
    <<"c", "o", "m", "m", "e", "n", "t">>,
    <<"t", "e", "x", "t">>,
    <<"n", "o", "t", "e">>,
    <<"d", "e", "t", "a", "i", "l">> }

\* The filter of textColumns
IsTextColumn(col) == \E hint \in textColumnHints : includes(toLowerCase(col), hint)

\* Object.keys(row)
ObjectKeys(row) == [i \in DOMAIN row |-> row[i].key]

\* columnsToUse, from the first row of the sheet
ColumnsToUse(sheetData) ==
  LET columns == ObjectKeys(sheetData[1])
      textColumns == SelectSeq(columns, IsTextColumn)
  IN  IF Len(textColumns) > 0 THEN textColumns ELSE columns

\* value !== undefined && value !== null ? String(value) : ''
CellString(row, col) ==
  IF \E i \in DOMAIN row : row[i].key = col /\ row[i].value.type # "null"
    THEN LET i == CHOOSE i \in DOMAIN row : row[i].key = col
         IN  TemplateString(row[i].value)
    ELSE <<>>

\* The text of a document: the non-blank cells joined with '. ', trimmed
DocumentText(row, cols) ==
  LET cells == [c \in DOMAIN cols |-> CellString(row, cols[c])]
  IN  trim(join(SelectSeq(cells, LAMBDA text : trim(text) # <<>>), <<".", " ">>))

batchSize == 10

Document(id, text) == [id |-> id, language |-> "en", text |-> text]

\* sheetData.slice(i, i + batchSize)
Batch(sheetData, i) ==
  SubSeq(sheetData, i + 1,
         IF i + batchSize < Len(sheetData) THEN i + batchSize ELSE Len(sheetData))

\* Mutant of Documents: the id is the index inside the batch
DocumentsBatchLocalIds(sheetData, i) ==
  LET cols == ColumnsToUse(sheetData)
      batch == Batch(sheetData, i)
      docs == [index \in DOMAIN batch |->
                 Document(Decimal(index - 1), DocumentText(batch[index], cols))]
  IN  SelectSeq(docs, LAMBDA doc : Len(doc.text) > 0)

\* documents: one per row of the batch, id `${i + index}`, empty texts skipped
Documents(sheetData, i) ==
  LET cols == ColumnsToUse(sheetData)
      batch == Batch(sheetData, i)
      docs == [index \in DOMAIN batch |->
                 Document(Decimal(i + index - 1), DocumentText(batch[index], cols))]
  IN  SelectSeq(docs, LAMBDA doc : Len(doc.text) > 0)

\* JSON.stringify(input) of a document array
DocumentJSON(doc) ==
  <<"{", "\"", "i", "d", "\"", ":">> \o JSONString(doc.id)
  \o <<",", "\"", "l", "a", "n", "g", "u", "a", "g", "e", "\"", ":", "\"", "e", "n", "\"", ",", "\"", "t", "e", "x", "t", "\"", ":">> \o JSONString(doc.text) \o <<"}">>

DocumentsJSON(docs) ==
  <<"[">> \o join([d \in DOMAIN docs |-> DocumentJSON(docs[d])], <<",">>) \o <<"]">>

\* The characters of the class /[.,\/#!$%\^&\*;:{}=\-_~()]/g and the backquote
\* (the backquote, which occurs in no text of the model, is left out)
mockPunctuation == {".", ",", "/", "#", "!", "$", "%", "^", "&", "*", ";", ":", "{", "}", "=", "-", "_", "~", "(", ")"}

cleanWord(word) == SelectSeq(word, LAMBDA c : c \notin mockPunctuation)

importantWords ==
  { <<"i", "m", "p", "o", "r", "t", "a", "n", "t">>,
    <<"s", "i", "g", "n", "i", "f", "i", "c", "a", "n", "t">>,
    <<"k", "e", "y">>,
    <<"c", "r", "i", "t", "i", "c", "a", "l">>,
    <<"m", "a", "j", "o", "r">> }

\* getMockKeyPhrases: the first words.forEach; both of its tests add cleanWord
MockCapitalized(words) ==
  LET clean == [i \in DOMAIN words |-> cleanWord(words[i])]
      added ==
        SelectSeq([i \in DOMAIN words |-> i],
                  LAMBDA i :
                    /\ i > 1
                    /\ \/ Len(clean[i]) > 3 /\ clean[i][1] \in UpperSet
                       \/ toLowerCase(words[i - 1]) \in importantWords)
  IN  Unique([k \in DOMAIN added |-> clean[added[k]]])

\* getMockKeyPhrases: the second words.forEach
MockLongWords(words) ==
  LET clean == [i \in DOMAIN words |-> cleanWord(words[i])]
  IN  Unique(SelectSeq(clean, LAMBDA word : Len(word) > 6))

maxMockKeyPhrases == 10

\* Mutant of getMockKeyPhrases: the phrases are not cut to the first ten
getMockKeyPhrasesUncut(text) ==
  LET words == splitWhitespace(text)
      capitalized == MockCapitalized(words)
  IN  IF capitalized = <<>> THEN MockLongWords(words) ELSE capitalized

getMockKeyPhrases(text) ==
  LET words == splitWhitespace(text)
      capitalized == MockCapitalized(words)
      keyPhrases == IF capitalized = <<>> THEN MockLongWords(words)
                    ELSE capitalized
  IN  slice(keyPhrases, maxMockKeyPhrases)

\* What client.analyze may answer: key phrases for every document, an error
\* entry for the first document and key phrases for the others, or a rejection
AnalysisAnswers == {"phrases", "firstDocumentError", "rejected"}

\* The key phrases the service finds in a document (its text, as one phrase)
ServiceKeyPhrases(doc) == <<doc.text>>

RECURSIVE Flatten(_)
Flatten(seqs) == IF seqs = <<>> THEN <<>> ELSE Head(seqs) \o Flatten(Tail(seqs))

\* Mutant of extractKeyPhrases: the catch block rethrows
extractKeyPhrasesRethrowing(docs, answer) ==
  IF ~hasCredentials
    THEN [threw |-> FALSE, analyzed |-> FALSE,
          phrases |-> getMockKeyPhrases(DocumentsJSON(docs))]
  ELSE IF answer = "rejected"
    THEN [threw |-> TRUE, analyzed |-> TRUE, phrases |-> <<>>]
  ELSE [threw |-> FALSE, analyzed |-> TRUE,
        phrases |-> Flatten([d \in DOMAIN docs |->
                              IF answer = "firstDocumentError" /\ d = 1 THEN <<>>
                              ELSE ServiceKeyPhrases(docs[d])])]

\* extractKeyPhrases(documents): what it returns (it never throws: the catch
\* block returns the mock phrases) and whether client.analyze was called
extractKeyPhrases(docs, answer) ==
  IF ~hasCredentials
    THEN [threw |-> FALSE, analyzed |-> FALSE,
          phrases |-> getMockKeyPhrases(DocumentsJSON(docs))]
  ELSE LET validDocuments == SelectSeq(docs, LAMBDA doc : Len(trim(doc.text)) > 0)
       IN  IF Len(validDocuments) = 0
             THEN [threw |-> FALSE, analyzed |-> FALSE, phrases |-> <<>>]
           ELSE IF answer = "rejected"
             THEN [threw |-> FALSE, analyzed |-> TRUE,
                   phrases |-> getMockKeyPhrases(DocumentsJSON(docs))]
           ELSE [threw |-> FALSE, analyzed |-> TRUE,
                 phrases |->
                   Flatten([d \in DOMAIN validDocuments |->
                              IF answer = "firstDocumentError" /\ d = 1 THEN <<>>
                              ELSE ServiceKeyPhrases(validDocuments[d])])]

\* .sort((a, b) => a.length - b.length): stable, shorter phrases first
SortByLength(seq) ==
  LET Rank(k) ==
        Cardinality({ j \in DOMAIN seq :
                        \/ Len(seq[j]) < Len(seq[k])
                        \/ Len(seq[j]) = Len(seq[k]) /\ j <= k })
  IN  [p \in DOMAIN seq |-> seq[CHOOSE k \in DOMAIN seq : Rank(k) = p]]

\* Array.from(new Set(allKeyPhrases)).sort(...)
uniqueKeyPhrases(all) == SortByLength(Unique(all))

NoError == <<>>
NoDataInSheet == <<"N", "o", " ", "d", "a", "t", "a", " ", "i", "n", " ", "s", "h", "e", "e", "t">>
AnErrorOccurred == <<"A", "n", " ", "e", "r", "r", "o", "r", " ", "o", "c", "c", "u", "r", "r", "e", "d">>

\* initialResults
InitialResults(data) ==
  [s \in DOMAIN data |->
     [sheetName |-> data[s].name, keyPhrases |-> <<>>, isProcessing |-> TRUE,
      error |-> NoError]]

\* setResults(prev => prev.map(...)): the entries named sheetName are replaced
SetSheetResult(prev, sheetName, keyPhrases, error) ==
  [s \in DOMAIN prev |->
     IF prev[s].sheetName = sheetName
       THEN [sheetName |-> sheetName,
             keyPhrases |-> IF error = NoError THEN keyPhrases ELSE prev[s].keyPhrases,
             isProcessing |-> FALSE, error |-> error]
       ELSE prev[s]]

\* processSheets from batch offset i of sheet number sheet on, up to the next
\* await of extractKeyPhrases or to the end of the sheets
RECURSIVE RunFrom(_, _, _, _, _)
RunFrom(data, sheet, i, all, res) ==
  IF sheet > Len(data)
    THEN [state |-> "done", sheet |-> sheet, i |-> 0, documents |-> <<>>,
          all |-> <<>>, results |-> res]
  ELSE LET sheetData == data[sheet].rows
       IN  IF Len(sheetData) = 0
             THEN RunFrom(data, sheet + 1, 0, <<>>,
                          SetSheetResult(res, data[sheet].name, <<>>, NoDataInSheet))
           ELSE IF i >= Len(sheetData)
             THEN RunFrom(data, sheet + 1, 0, <<>>,
                          SetSheetResult(res, data[sheet].name,
                                         uniqueKeyPhrases(all), NoError))
           ELSE LET documents == Documents(sheetData, i)
                IN  IF Len(documents) = 0
                      THEN RunFrom(data, sheet, i + batchSize, all, res)
                      ELSE [state |-> "awaiting", sheet |-> sheet, i |-> i,
                            documents |-> documents, all |-> all, results |-> res]

\* The state after the run reached the point RunFrom computed
RunReaches(point) ==
  /\ processing' = [state |-> point.state, sheet |-> point.sheet, i |-> point.i,
                    documents |-> point.documents]
  /\ allKeyPhrases' = point.all
  /\ results' = point.results
  /\ isProcessing' = (point.state # "done")

\* A click on the button: processSheets up to its first await
processSheets ==
  /\ ~isProcessing
  /\ Len(documentData) > 0
  /\ LET point == RunFrom(documentData, 1, 0, <<>>, InitialResults(documentData))
     IN  /\ RunReaches(point)
         /\ submitted' = IF point.state = "awaiting"
                           THEN <<[sheet |-> point.sheet, documents |-> point.documents]>>
                           ELSE <<>>
  /\ analyzed' = <<>>
  /\ outcomes' = <<>>
  /\ UNCHANGED <<hasCredentials, sentimentVars, searchVars, frontVars, serverVars>>

\* processSheets after an await: the batch is answered, the loop goes on to
\* the next await or to the end; an exception goes to the sheet's catch block
BatchAnswered(answer) ==
  /\ processing.state = "awaiting"
  /\ LET sheet == processing.sheet
         returned == extractKeyPhrases(processing.documents, answer)
         point ==
           IF returned.threw
             THEN RunFrom(documentData, sheet + 1, 0, <<>>,
                          SetSheetResult(results, documentData[sheet].name, <<>>,
                                         AnErrorOccurred))
             ELSE RunFrom(documentData, sheet, processing.i + batchSize,
                          allKeyPhrases \o returned.phrases, results)
     IN  /\ RunReaches(point)
         /\ submitted' = IF point.state = "awaiting"
                           THEN Append(submitted, [sheet |-> point.sheet,
                                                   documents |-> point.documents])
                           ELSE submitted
         /\ analyzed' = IF returned.analyzed
                          THEN Append(analyzed, processing.documents)
                          ELSE analyzed
         /\ outcomes' = Append(outcomes, IF hasCredentials THEN answer ELSE "mock")
         /\ resolved' = [method |-> "extractKeyPhrases", threw |-> returned.threw,
                         value |-> returned.phrases]
  /\ UNCHANGED <<hasCredentials, sentimentComponentVars, searchVars, frontVars,
                 serverVars>>

KeyPhraseRows == 23

\* A row whose note column holds text, a row whose note column is blank,
\* null or missing
TextRow(k) ==
  << Entry(<<"i", "d">>, NumberValue(k)),
     Entry(<<"N", "o", "t", "e">>, StringValue(<<"R", "o", "w", " ">> \o Decimal(k))) >>

BlankRow(k) ==
  CASE k % 3 = 0 -> << Entry(<<"i", "d">>, NumberValue(k)),
                       Entry(<<"N", "o", "t", "e">>, StringValue(<<" ", " ">>)) >>
    [] k % 3 = 1 -> << Entry(<<"i", "d">>, NumberValue(k)),
                       Entry(<<"N", "o", "t", "e">>, NullValue) >>
    [] OTHER -> << Entry(<<"i", "d">>, NumberValue(k)) >>

\* A sheet of n rows whose rows blankFrom..blankTo (1-based) have no text
KeyPhraseSheet(name, n, blankFrom, blankTo) ==
  [name |-> name,
   rows |-> [k \in 1..n |-> IF k > 1 /\ blankFrom <= k /\ k <= blankTo THEN BlankRow(k)
                            ELSE TextRow(k)]]

\* A sheet without a text column: every column is used
PlainSheet(name, n) ==
  [name |-> name,
   rows |-> [k \in 1..n |->
               << Entry(<<"c", "i", "t", "y">>, StringValue(<<"R", "o", "m", "e">>)),
                  Entry(<<"i", "d">>, NumberValue(k)) >>]]

KeyPhraseDatasets ==
  { << KeyPhraseSheet(SheetName(1), KeyPhraseRows, batchSize + 1, 2 * batchSize) >>,
    << KeyPhraseSheet(SheetName(1), batchSize + 2, 3, 3),
       KeyPhraseSheet(SheetName(2), 5, 0, 0) >>,
    << KeyPhraseSheet(SheetName(1), 0, 0, 0),
       KeyPhraseSheet(SheetName(2), batchSize + 1, 2, batchSize) >>,
    << PlainSheet(SheetName(1), batchSize), PlainSheet(SheetName(2), 2) >>,
    Dataset(2, 3, 0, 0),
    Dataset(0, 0, 0, 0) }

KeyPhraseSpecInit ==
  /\ \E data \in KeyPhraseDatasets : SelectorInit(data)
  /\ log = <<>>
  /\ ChatInit
  /\ CompletionInit
  /\ SearchInit
  /\ \E credentials \in BOOLEAN : KeyPhraseInit(credentials)
  /\ SentimentInit
  /\ ServerInit(TRUE)
  /\ AppMounted

KeyPhraseNext ==
  \/ processSheets
  \/ \E answer \in AnalysisAnswers : BatchAnswered(answer)

KeyPhraseSpec == KeyPhraseSpecInit /\ [][KeyPhraseNext]_vars

----------------------------------------------------------------------------
(* server.js: POST /api/create-index *)

uploadBatchSize == 1000

Unknown == <<"u", "n", "k", "n", "o", "w", "n">>

\* A document of the request body: content and metadata may be missing
IndexDocument(id, content, metadata) ==
  [id |-> id, content |-> content, metadata |-> metadata]

NoMetadata == [given |-> FALSE, sheetName |-> <<>>, additionalInfo |-> <<>>]

Metadata(sheetName, additionalInfo) ==
  [given |-> TRUE, sheetName |-> sheetName, additionalInfo |-> additionalInfo]

\* The document as uploaded: doc.content || '', sheetName || 'unknown',
\* additionalInfo || ''
PrepareDocument(doc) ==
  [id |-> doc.id,
   content |-> doc.content,
   metadata |->
     [sheetName |-> IF doc.metadata.given /\ doc.metadata.sheetName # <<>>
                      THEN doc.metadata.sheetName ELSE Unknown,
      additionalInfo |-> IF doc.metadata.given THEN doc.metadata.additionalInfo
                         ELSE <<>>]]

\* Mutant of UploadBatch: documents.slice(i, i + batchSize + 1)
UploadBatchOverlapping(documents, i) ==
  SubSeq(documents, i + 1,
         IF i + uploadBatchSize + 1 < Len(documents) THEN i + uploadBatchSize + 1
         ELSE Len(documents))

\* documents.slice(i, i + batchSize)
UploadBatch(documents, i) ==
  SubSeq(documents, i + 1,
         IF i + uploadBatchSize < Len(documents) THEN i + uploadBatchSize
         ELSE Len(documents))

\* preparedBatch
preparedBatch(documents, i) ==
  LET batch == UploadBatch(documents, i)
  IN  [d \in DOMAIN batch |-> PrepareDocument(batch[d])]

Call(kind, value) == [kind |-> kind, value |-> value]

Response(status, documentCount) == [status |-> status, documentCount |-> documentCount]

\* The answers of the search service: success, a 404, another error
UpstreamAnswers == {"ok", "notFound", "error"}

\* res.status(...).json(...)
Respond(status, documentCount) ==
  /\ responses' = Append(responses, Response(status, documentCount))
  /\ createPc' = "responded"

\* The request arrives: validation, credentials, then the delete call
PostCreateIndex(documents) ==
  /\ createPc \in {"idle", "responded"}
  /\ reqDocuments' = documents
  /\ uploadOffset' = 0
  /\ upstreamAnswers' = <<>>
  /\ IF ~documents.isArray \/ Len(documents.items) = 0
       THEN /\ responses' = <<Response(400, <<>>)>>
            /\ createPc' = "responded"
            /\ upstream' = <<>>
     ELSE IF ~searchConfigured
       THEN /\ responses' = <<Response(500, <<>>)>>
            /\ createPc' = "responded"
            /\ upstream' = <<>>
     ELSE /\ responses' = <<>>
          /\ createPc' = "delete"
          /\ upstream' = <<Call("delete", <<>>)>>
  /\ UNCHANGED <<proxyVars, searchConfigured, searchVars, keyPhraseVars, sentimentVars, frontVars>>

\* The delete call is answered: its failure is ignored, the index is created
DeleteAnswered(answer) ==
  /\ createPc = "delete"
  /\ upstreamAnswers' = Append(upstreamAnswers, answer)
  /\ upstream' = Append(upstream, Call("create", <<>>))
  /\ createPc' = "create"
  /\ UNCHANGED <<proxyVars, searchConfigured, reqDocuments, uploadOffset, responses,
                 searchVars, keyPhraseVars, sentimentVars, frontVars>>

\* The create call is answered: 500 on failure, else the first batch is sent
CreateAnswered(answer) ==
  /\ createPc = "create"
  /\ upstreamAnswers' = Append(upstreamAnswers, answer)
  /\ IF answer # "ok"
       THEN /\ Respond(500, <<>>)
            /\ UNCHANGED upstream
       ELSE /\ upstream' =
                 Append(upstream, Call("upload", preparedBatch(reqDocuments.items, 0)))
            /\ createPc' = "upload"
            /\ UNCHANGED responses
  /\ UNCHANGED <<proxyVars, searchConfigured, reqDocuments, uploadOffset, searchVars,
                 keyPhraseVars, sentimentVars, frontVars>>

\* Mutant of UploadAnswered: a failed upload ends the request with a 500
UploadAnsweredAborting(answer) ==
  /\ createPc = "upload"
  /\ upstreamAnswers' = Append(upstreamAnswers, answer)
  /\ uploadOffset' = uploadOffset + uploadBatchSize
  /\ IF answer # "ok"
       THEN /\ Respond(500, <<>>)
            /\ UNCHANGED upstream
     ELSE IF uploadOffset' < Len(reqDocuments.items)
       THEN /\ upstream' =
                 Append(upstream,
                        Call("upload", preparedBatch(reqDocuments.items, uploadOffset')))
            /\ UNCHANGED <<createPc, responses>>
       ELSE /\ createPc' = "settling"
            /\ UNCHANGED <<upstream, responses>>
  /\ UNCHANGED <<proxyVars, searchConfigured, reqDocuments, searchVars, keyPhraseVars, sentimentVars,
                 frontVars>>

\* An upload is answered: whatever the answer, the loop goes on to the next
\* batch, or to the wait for the indexing when there is none
UploadAnswered(answer) ==
  /\ createPc = "upload"
  /\ upstreamAnswers' = Append(upstreamAnswers, answer)
  /\ uploadOffset' = uploadOffset + uploadBatchSize
  /\ IF uploadOffset' < Len(reqDocuments.items)
       THEN /\ upstream' =
                 Append(upstream,
                        Call("upload", preparedBatch(reqDocuments.items, uploadOffset')))
            /\ UNCHANGED createPc
       ELSE /\ createPc' = "settling"
            /\ UNCHANGED upstream
  /\ UNCHANGED <<proxyVars, searchConfigured, reqDocuments, responses, searchVars,
                 keyPhraseVars, sentimentVars, frontVars>>

\* The 3 s wait is over: the count is asked for
IndexingWaitElapsed ==
  /\ createPc = "settling"
  /\ upstream' = Append(upstream, Call("count", <<>>))
  /\ createPc' = "count"
  /\ UNCHANGED <<proxyVars, searchConfigured, reqDocuments, uploadOffset, upstreamAnswers,
                 responses, searchVars, keyPhraseVars, sentimentVars, frontVars>>

\* The count call is answered: 200 with the count, or with 'unknown'
CountAnswered(answer) ==
  /\ createPc = "count"
  /\ upstreamAnswers' = Append(upstreamAnswers, answer)
  /\ Respond(200, IF answer = "ok" THEN <<"n">> ELSE Unknown)
  /\ UNCHANGED <<proxyVars, searchConfigured, reqDocuments, uploadOffset, upstream,
                 searchVars, keyPhraseVars, sentimentVars, frontVars>>

MaxDocuments == 2001

DocumentId(k) == <<"d", "o", "c", "-">> \o Decimal(k)

\* The documents of a request body: n documents, some without metadata or
\* with an empty sheet name
RequestDocuments(n) ==
  [isArray |-> TRUE,
   items |-> [k \in 1..n |->
                IndexDocument(DocumentId(k - 1), <<"c">>,
                              CASE k % 3 = 0 -> NoMetadata
                                [] k % 3 = 1 -> Metadata(SheetName(1), <<"{", "}">>)
                                [] OTHER -> Metadata(<<>>, <<>>))]]

DocumentCounts == {0, 1, uploadBatchSize, uploadBatchSize + 1, MaxDocuments}

RequestBodies ==
  { [isArray |-> FALSE, items |-> <<>>] } \cup
  { RequestDocuments(n) : n \in DocumentCounts }

ServerSpecInit ==
  /\ SelectorInit(<<>>)
  /\ log = <<>>
  /\ ChatInit
  /\ CompletionInit
  /\ SearchInit
  /\ KeyPhraseInit(TRUE)
  /\ SentimentInit
  /\ \E configured \in BOOLEAN : ServerInit(configured)
  /\ AppMounted

ServerNext ==
  \/ \E documents \in RequestBodies : PostCreateIndex(documents)
  \/ \E answer \in UpstreamAnswers : DeleteAnswered(answer)
  \/ \E answer \in UpstreamAnswers : CreateAnswered(answer)
  \/ \E answer \in UpstreamAnswers : UploadAnswered(answer)
  \/ IndexingWaitElapsed
  \/ \E answer \in UpstreamAnswers : CountAnswered(answer)

ServerSpec == ServerSpecInit /\ [][ServerNext]_vars

\* An awaited call of the handler settles, or its timer fires
HandlerResumes ==
  \/ \E answer \in UpstreamAnswers : DeleteAnswered(answer)
  \/ \E answer \in UpstreamAnswers : CreateAnswered(answer)
  \/ \E answer \in UpstreamAnswers : UploadAnswered(answer)
  \/ IndexingWaitElapsed
  \/ \E answer \in UpstreamAnswers : CountAnswered(answer)

\* The endpoint under the assumption that every call to the search service
\* settles
ServerLiveSpec == ServerSpec /\ WF_vars(HandlerResumes)

\* A sheet of n rows whose note holds many words, some of them twice
WordySheet(name, n) ==
  [name |-> name,
   rows |-> [k \in 1..n |->
               << Entry(<<"N", "o", "t", "e">>,
                        StringValue(<<"R", "o", "m", "e", " ", "O", "s", "l", "o", " ", "k", "e", "y", " ", "t", "a", "x", " ", "B", "e", "r", "n", " ", "O", "s", "l", "o", " ", "R", "i", "g", "a", " ", "N", "i", "c", "e", " ", "L", "y", "o", "n", " ", "G", "r", "a", "z", " ", "L", "i", "n", "z", " ", "B", "o", "n", "n", " ", "P", "i", "s", "a", " ", "B", "a", "r", "i", " ", "K", "y", "i", "v", " ">> \o Decimal(k))) >>]]
----------------------------------------------------------------------------
(* The language service: analyzeSentiment, and the SentimentAnalysis component *)

positiveWords ==
  { <<"g", "o", "o", "d">>,
    <<"g", "r", "e", "a", "t">>,
    <<"e", "x", "c", "e", "l", "l", "e", "n", "t">>,
    <<"a", "m", "a", "z", "i", "n", "g">>,
    <<"w", "o", "n", "d", "e", "r", "f", "u", "l">>,
    <<"b", "e", "s", "t">>,
    <<"h", "a", "p", "p", "y">>,
    <<"p", "o", "s", "i", "t", "i", "v", "e">>,
    <<"s", "u", "c", "c", "e", "s", "s">> }

negativeWords ==
  { <<"b", "a", "d">>,
    <<"t", "e", "r", "r", "i", "b", "l", "e">>,
    <<"a", "w", "f", "u", "l">>,
    <<"h", "o", "r", "r", "i", "b", "l", "e">>,
    <<"w", "o", "r", "s", "t">>,
    <<"s", "a", "d">>,
    <<"n", "e", "g", "a", "t", "i", "v", "e">>,
    <<"f", "a", "i", "l", "u", "r", "e">>,
    <<"p", "o", "o", "r">> }

\* words.forEach(word => { if (positiveWords.some(pw => word.includes(pw))) positiveCount++ })
positiveCount(words) ==
  Cardinality({ w \in DOMAIN words : \E pw \in positiveWords : includes(words[w], pw) })

negativeCount(words) ==
  Cardinality({ w \in DOMAIN words : \E nw \in negativeWords : includes(words[w], nw) })

\* Mutant of SentimentLabel: the thresholds are inclusive
SentimentLabelInclusive(p, n) ==
  IF p >= n * 2 THEN "positive"
  ELSE IF n >= p * 2 THEN "negative"
  ELSE IF p > 0 /\ n > 0 THEN "mixed"
  ELSE "neutral"

\* getMockSentimentAnalysis: the label of the counts
SentimentLabel(p, n) ==
  IF p > n * 2 THEN "positive"
  ELSE IF n > p * 2 THEN "negative"
  ELSE IF p > 0 /\ n > 0 THEN "mixed"
  ELSE "neutral"

\* The scores are fractions num/den, den > 0 (the code computes them in
\* floating point)
Ratio(num, den) == [num |-> num, den |-> den]

MinRatio(a, b) == IF a.num * b.den <= b.num * a.den THEN a ELSE b

MaxRatio(a, b) == IF a.num * b.den >= b.num * a.den THEN a ELSE b

\* Math.min(0.99, count / words.length * 5)
MockScore(count, length) == MinRatio(Ratio(99, 100), Ratio(count * 5, length))

\* Math.max(0.01, 1 - positiveScore - negativeScore)
MockNeutralScore(pos, neg) ==
  MaxRatio(Ratio(1, 100),
           Ratio(pos.den * neg.den - pos.num * neg.den - neg.num * pos.den,
                 pos.den * neg.den))

\* getMockSentimentAnalysis
getMockSentimentAnalysis(text) ==
  LET words == splitWhitespace(toLowerCase(text))
      p == positiveCount(words)
      n == negativeCount(words)
      sentiment == SentimentLabel(p, n)
      positiveScore == MockScore(p, Len(words))
      negativeScore == MockScore(n, Len(words))
      scores == <<positiveScore, negativeScore,
                  MockNeutralScore(positiveScore, negativeScore)>>
  IN  [sentiment |-> sentiment,
       confidenceScores |-> scores,
       sentences |-> <<[sentiment |-> sentiment, confidenceScores |-> scores,
                        text |-> text]>>]

SampleSentimentText == <<"S", "a", "m", "p", "l", "e", " ", "t", "e", "x", "t", " ", "f", "o", "r", " ", "s", "e", "n", "t", "i", "m", "e", "n", "t", " ", "a", "n", "a", "l", "y", "s", "i", "s">>

\* What client.analyze may answer to analyzeSentiment: a result, a result
\* that carries an error, or a rejection
SentimentAnswers == {"sentiment", "documentError", "rejected"}

\* The result of the service for a text
ServiceSentiment(text) ==
  [sentiment |-> "positive",
   confidenceScores |-> <<Ratio(9, 10), Ratio(0, 1), Ratio(1, 10)>>,
   sentences |-> <<[sentiment |-> "positive",
                    confidenceScores |-> <<Ratio(9, 10), Ratio(0, 1), Ratio(1, 10)>>,
                    text |-> text, opinions |-> <<>>]>>]

\* analyzeSentiment calls client.analyze for this text
CallsClient(text) == hasCredentials /\ trim(text) # <<>>

\* analyzeSentiment(text): what it resolves to, the client giving the answer
\* when it is called
analyzeSentiment(text, answer) ==
  IF ~hasCredentials THEN getMockSentimentAnalysis(text)
  ELSE IF trim(text) = <<>> THEN getMockSentimentAnalysis(SampleSentimentText)
  ELSE IF answer = "sentiment" THEN ServiceSentiment(text)
  ELSE getMockSentimentAnalysis(text)

\* An element of Object.values(row) as join writes it: null as ''
JoinString(v) == IF v.type = "null" THEN <<>> ELSE TemplateString(v)

\* sheetData.map(row => Object.values(row).join(' ')).join('\n')
SheetText(sheetData) ==
  join([r \in DOMAIN sheetData |->
          join([c \in DOMAIN sheetData[r] |-> JoinString(sheetData[r][c].value)],
               <<" ">>)],
       <<"\n">>)

NoSentiment == "null"
NoScores == <<>>

\* initialResults of SentimentAnalysis
InitialSentiments(data) ==
  [s \in DOMAIN data |->
     [sheetName |-> data[s].name, sentiment |-> NoSentiment,
      confidenceScores |-> NoScores, sentences |-> <<>>, isProcessing |-> TRUE,
      error |-> NoError]]

\* setResults(prev => prev.map(...)) of the try block
SetSheetSentiment(prev, sheetName, analysis) ==
  [s \in DOMAIN prev |->
     IF prev[s].sheetName = sheetName
       THEN [sheetName |-> sheetName, sentiment |-> analysis.sentiment,
             confidenceScores |-> analysis.confidenceScores,
             sentences |-> analysis.sentences, isProcessing |-> FALSE,
             error |-> prev[s].error]
       ELSE prev[s]]

\* The loop of processSheets reaches sheet number sheet: analyzeSentiment is
\* called for its text and awaited, or the loop is over
SentimentLoopAt(sheet, calls) ==
  IF sheet > Len(documentData)
    THEN /\ sentimentRun' = [state |-> "done", sheet |-> sheet, text |-> <<>>]
         /\ sentimentIsProcessing' = FALSE
         /\ sentimentCalls' = calls
    ELSE LET text == SheetText(documentData[sheet].rows)
         IN  /\ sentimentRun' = [state |-> "awaiting", sheet |-> sheet, text |-> text]
             /\ sentimentIsProcessing' = TRUE
             /\ sentimentCalls' = IF CallsClient(text) THEN Append(calls, text)
                                  ELSE calls

\* A click on the button of SentimentAnalysis: processSheets up to its first
\* await
processSheetsSentiment ==
  /\ ~sentimentIsProcessing
  /\ Len(documentData) > 0
  /\ sentimentResults' = InitialSentiments(documentData)
  /\ SentimentLoopAt(1, <<>>)
  /\ UNCHANGED <<resolved, keyPhraseVars, searchVars, frontVars, serverVars>>

\* processSheets after an await: analyzeSentiment resolved, the entry of the
\* sheet is set and the loop goes on
SentimentResolved(answer) ==
  /\ sentimentRun.state = "awaiting"
  /\ LET sheet == sentimentRun.sheet
         analysis == analyzeSentiment(sentimentRun.text, answer)
     IN  /\ resolved' = [method |-> "analyzeSentiment", threw |-> FALSE,
                         value |-> analysis]
         /\ sentimentResults' =
              SetSheetSentiment(sentimentResults, documentData[sheet].name, analysis)
         /\ SentimentLoopAt(sheet + 1, sentimentCalls)
  /\ UNCHANGED <<keyPhraseVars, searchVars, frontVars, serverVars>>

MaxHits == 4

PositivePool == << <<"G", "o", "o", "d", "!">>, <<"u", "n", "H", "A", "P", "P", "Y">>, <<"b", "e", "s", "t", ".">> >>

NegativePool == << <<"B", "A", "D">>, <<"P", "o", "o", "r", "l", "y">>, <<"s", "a", "d", ",">> >>

\* A sheet whose cells hold p words that count as positive, n words that
\* count as negative and z words that count as neither
SentimentSheet(name, p, n, z) ==
  [name |-> name,
   rows |-> [k \in 1..(p + n + z) |->
               << Entry(<<"n", "o", "t", "e">>,
                        StringValue(IF k <= p THEN PositivePool[(k % Len(PositivePool)) + 1]
                                    ELSE IF k <= p + n
                                      THEN NegativePool[(k % Len(NegativePool)) + 1]
                                    ELSE <<"R", "o", "w">>)),
                  Entry(<<"i", "d">>, IF k % 2 = 0 THEN NullValue ELSE NumberValue(k)) >>]]

SentimentDatasets ==
  { << SentimentSheet(SheetName(1), p, n, 1) >> : p \in 0..MaxHits, n \in 0..MaxHits }
    \cup
  { << SentimentSheet(SheetName(1), 1, 0, 0), SentimentSheet(SheetName(2), 0, 0, 0),
       SentimentSheet(SheetName(3), 1, 2, 2) >>,
    << SentimentSheet(SheetName(1), 0, 0, 0) >>,
    Dataset(0, 0, 0, 0) }

SentimentSpecInit ==
  /\ \E data \in SentimentDatasets : SelectorInit(data)
  /\ log = <<>>
  /\ ChatInit
  /\ CompletionInit
  /\ SearchInit
  /\ \E credentials \in BOOLEAN : KeyPhraseInit(credentials)
  /\ SentimentInit
  /\ ServerInit(TRUE)
  /\ AppMounted

SentimentNext ==
  \/ processSheetsSentiment
  \/ \E answer \in SentimentAnswers : SentimentResolved(answer)

SentimentSpec == SentimentSpecInit /\ [][SentimentNext]_vars

\* The two analyses of the language service on the same data
LanguageDatasets ==
  { << KeyPhraseSheet(SheetName(1), 0, 0, 0),
       KeyPhraseSheet(SheetName(2), batchSize + 1, 2, batchSize) >>,
    << SentimentSheet(SheetName(1), 1, 0, 0), SentimentSheet(SheetName(2), 0, 0, 0),
       SentimentSheet(SheetName(3), 1, 2, 2) >>,
    << WordySheet(SheetName(1), 2) >> }

LanguageSpecInit ==
  /\ \E data \in LanguageDatasets : SelectorInit(data)
  /\ log = <<>>
  /\ ChatInit
  /\ CompletionInit
  /\ SearchInit
  /\ \E credentials \in BOOLEAN : KeyPhraseInit(credentials)
  /\ SentimentInit
  /\ ServerInit(TRUE)
  /\ AppMounted

LanguageNext ==
  \/ KeyPhraseNext
  \/ SentimentNext

LanguageSpec == LanguageSpecInit /\ [][LanguageNext]_vars

----------------------------------------------------------------------------
(* The proxy of the search service: app.use('/api/search') *)

API_VERSION == <<"2", "0", "2", "3", "-", "1", "0", "-", "0", "1", "-", "P", "r", "e", "v", "i", "e", "w">>

\* The values of VITE_AZURE_SEARCH_ENDPOINT and VITE_AZURE_SEARCH_API_KEY
\* when they are set
searchEndpoint == <<"h", "t", "t", "p", "s", ":", "/", "/", "s", ".", "e", "x", "a", "m", "p", "l", "e">>
apiKey == <<"s", "e", "r", "v", "e", "r", "-", "k", "e", "y">>

\* The key a client may send in its own api-key header
ClientKey == <<"c", "l", "i", "e", "n", "t", "-", "k", "e", "y">>

ApiVersionParameter == <<"a", "p", "i", "-", "v", "e", "r", "s", "i", "o", "n", "=">>

\* Mutant of fullUrl: the parameter always follows a question mark
fullUrlQuestionMark(targetPath) ==
  searchEndpoint \o targetPath \o <<"?">> \o ApiVersionParameter \o API_VERSION

\* The template string of fullUrl
fullUrl(targetPath) ==
  searchEndpoint \o targetPath
    \o (IF includes(targetPath, <<"?">>) THEN <<"&">> ELSE <<"?">>)
    \o ApiVersionParameter \o API_VERSION

Undefined == <<"u", "n", "d", "e", "f", "i", "n", "e", "d">>

\* The request arrives: the credentials are tested, then the request is
\* forwarded; the headers of the client are not copied
ProxyRequest(method, url, body, sentKey) ==
  /\ proxyPc \in {"idle", "responded"}
  /\ proxyRequest' = [method |-> method, url |-> url, body |-> body,
                      sentKey |-> sentKey]
  /\ IF ~searchConfigured
       THEN /\ proxyResponses' = <<[status |-> 500]>>
            /\ proxyPc' = "responded"
            /\ forwarded' = <<>>
       ELSE /\ proxyResponses' = <<>>
            /\ proxyPc' = "forwarding"
            /\ forwarded' =
                 << [method |-> method,
                     url |-> fullUrl(url),
                     headers |-> [contentType |-> "application/json",
                                  apiKey |-> apiKey],
                     data |-> IF method # "GET" THEN body ELSE Undefined] >>
  /\ UNCHANGED <<searchConfigured, reqDocuments, createPc, uploadOffset, upstream,
                 upstreamAnswers, responses, searchVars, keyPhraseVars,
                 sentimentVars, frontVars>>

\* What the search service may answer: a response, an error response, or no
\* response at all
ProxyAnswers == {"response", "errorResponse", "noResponse"}

\* The forwarded request is answered: the status is relayed, or 500 is sent
ProxyAnswered(answer) ==
  /\ proxyPc = "forwarding"
  /\ proxyResponses' =
       <<[status |-> CASE answer = "response" -> 200
                       [] answer = "errorResponse" -> 404
                       [] OTHER -> 500]>>
  /\ proxyPc' = "responded"
  /\ UNCHANGED <<proxyRequest, forwarded, searchConfigured, reqDocuments, createPc,
                 uploadOffset, upstream, upstreamAnswers, responses, searchVars,
                 keyPhraseVars, sentimentVars, frontVars>>

ProxyMethods == {"GET", "POST", "DELETE"}

\* req.url: the part of the URL after /api/search
ProxyPaths ==
  { <<"/", "i", "n", "d", "e", "x", "e", "s", "/", "t", "e", "m", "p", "-", "i", "n", "d", "e", "x", "-", "1", "/", "d", "o", "c", "s", "/", "s", "e", "a", "r", "c", "h">>,
    <<"/", "i", "n", "d", "e", "x", "e", "s", "?", "$", "s", "e", "l", "e", "c", "t", "=", "n", "a", "m", "e">>,
    <<"/">>,
    <<"/", "i", "n", "d", "e", "x", "e", "s", "/", "t", "e", "m", "p", "-", "i", "n", "d", "e", "x", "-", "1", "/", "d", "o", "c", "s", "?", "s", "e", "a", "r", "c", "h", "=", "r", "o", "m", "e", "&", "$", "t", "o", "p", "=", "3">>,
    <<"/", "i", "n", "d", "e", "x", "e", "s", "?", "a", "p", "i", "-", "v", "e", "r", "s", "i", "o", "n", "=", "2", "0", "2", "3", "-", "1", "0", "-", "0", "1", "-", "P", "r", "e", "v", "i", "e", "w">>,
    <<"/", "i", "n", "d", "e", "x", "e", "s", "?">> }

ProxyBodies == { <<>>, <<"{", "}">> }

ProxySpecInit ==
  /\ SelectorInit(<<>>)
  /\ log = <<>>
  /\ ChatInit
  /\ CompletionInit
  /\ SearchInit
  /\ KeyPhraseInit(TRUE)
  /\ SentimentInit
  /\ \E configured \in BOOLEAN : ServerInit(configured)
  /\ AppMounted

ProxyNext ==
  \/ \E method \in ProxyMethods, url \in ProxyPaths, body \in ProxyBodies,
        sentKey \in BOOLEAN : ProxyRequest(method, url, body, sentKey)
  \/ \E answer \in ProxyAnswers : ProxyAnswered(answer)

ProxySpec == ProxySpecInit /\ [][ProxyNext]_vars

----------------------------------------------------------------------------
(* App: module evaluation, file upload and the mounted components *)

\* new AzureOpenAIService() at the top level of azure-openai.ts: the
\* constructor throws when a value is missing
ConstructorThrows == ~openAIConfigured

\* The browser evaluates the modules: App imports ChatInterface, which imports
\* azure-openai.ts, whose top level constructs the service; an exception there
\* fails the evaluation of every importing module, App included
LoadApp ==
  /\ appState = "loading"
  /\ appState' = IF ConstructorThrows THEN "failed" ELSE "mounted"
  /\ UNCHANGED <<openAIConfigured, isDataUploaded, selectorVars, log, chatVars,
                 completionVars, backendVars>>

\* handleFilesUploaded(sheets): the components are rendered with the data
handleFilesUploaded(sheets) ==
  /\ appState = "mounted"
  /\ ~isDataUploaded
  /\ documentData' = sheets
  /\ isDataUploaded' = TRUE
  /\ UNCHANGED <<called, query, keywords, relevantContent, context, log, chatVars,
                 completionVars, backendVars, openAIConfigured, appState>>

\* The components exist once the application is mounted and data is uploaded
ComponentsMounted == appState = "mounted" /\ isDataUploaded

\* The chat tab and the key-phrase tab at work
AppChat == ComponentsMounted /\ ChatNext
AppKeyPhrases == ComponentsMounted /\ KeyPhraseNext

AppDatasets ==
  { Dataset(1, 2, 0, 0), << KeyPhraseSheet(SheetName(1), 2, 2, 2) >> }

AppSpecInit ==
  /\ SelectorInit(<<>>)
  /\ log = <<>>
  /\ ChatInit
  /\ CompletionInit
  /\ SearchInit
  /\ \E credentials \in BOOLEAN : KeyPhraseInit(credentials)
  /\ SentimentInit
  /\ ServerInit(TRUE)
  /\ openAIConfigured \in BOOLEAN
  /\ appState = "loading"
  /\ isDataUploaded = FALSE

AppNext ==
  \/ LoadApp
  \/ \E sheets \in AppDatasets : handleFilesUploaded(sheets)
  \/ AppChat
  \/ AppKeyPhrases

AppSpec == AppSpecInit /\ [][AppNext]_vars

----------------------------------------------------------------------------
(* Properties of findRelevantContent *)

\* The row positions of a dataset: <<sheet, row>>, both counted from 1
Positions(data) ==
  UNION { { <<sh, r>> : r \in DOMAIN data[sh].rows } : sh \in DOMAIN data }

\* Sheet order, then row order
Before(p, q) == p[1] < q[1] \/ (p[1] = q[1] /\ p[2] < q[2])

PositionOf(snippet) == <<snippet.sheet, snippet.row>>

RowAt(data, p) == data[p[1]].rows[p[2]]

\* k occurs in s as a run of consecutive characters
IsSubstring(k, s) ==
  \E i \in 0..(Len(s) - Len(k)) : SubSeq(s, i + 1, i + Len(k)) = k

\* The positions of the rows whose lowercased serialization contains a keyword
MatchingPositions(data, kws) ==
  { p \in Positions(data) :
      \E i \in DOMAIN kws :
        IsSubstring(kws[i], toLowerCase(JSONstringify(RowAt(data, p)))) }

\* The sheets that have at least one row
NonEmptySheets(data) == { sh \in DOMAIN data : Len(data[sh].rows) > 0 }

\* The number of elements of ps that come before p
Rank(p, ps) == Cardinality({ o \in ps : Before(o, p) })

\* seq is the sample fallback of data: one snippet per sheet that has rows, in
\* sheet order, built from the first row of the sheet
IsSampleFallback(seq, data) ==
  /\ Len(seq) = Cardinality(NonEmptySheets(data))
  /\ \A i \in DOMAIN seq :
       /\ seq[i].kind = "sample"
       /\ seq[i].sheet \in NonEmptySheets(data)
       /\ Cardinality({ sh \in NonEmptySheets(data) : sh < seq[i].sheet }) = i - 1
       /\ seq[i].text =
            <<"[","S","a","m","p","l","e"," ","f","r","o","m"," ","s","h","e","e","t"," ","\"">> \o data[seq[i].sheet].name
            \o <<"\"","]",":"," ">> \o FormatRow(data[seq[i].sheet].rows[1])

\* C1: the snippets returned are in sheet-iteration order and, within one
\* sheet, in ascending source row order; every snippet is the text built from
\* the row at its position.
C1_SheetThenRowOrder ==
  called =>
    /\ \A i, j \in DOMAIN context :
         i < j => Before(PositionOf(context[i]), PositionOf(context[j]))
    /\ \A i \in DOMAIN context :
         /\ PositionOf(context[i]) \in Positions(documentData)
         /\ context[i].text =
              IF context[i].kind = "match"
                THEN MatchText(documentData[context[i].sheet].name, context[i].row - 1,
                               RowAt(documentData, PositionOf(context[i])))
                ELSE SampleText(documentData[context[i].sheet].name,
                                RowAt(documentData, PositionOf(context[i])))

\* Matches of two sheets are returned, two of them from rows of one sheet
C1_Witness ==
  /\ called
  /\ \E i, j \in DOMAIN context :
       /\ i < j
       /\ context[i].kind = "match"
       /\ context[i].sheet = context[j].sheet
  /\ \E i, j \in DOMAIN context : context[i].sheet < context[j].sheet

\* C2: when more than 20 rows match, exactly 20 snippets are returned and they
\* are the first 20 matches in sheet-then-row order; when between 1 and 20 rows
\* match, every match is returned.
C2_PrefixTruncation ==
  LET matching == MatchingPositions(documentData, keywords)
      n == Cardinality(matching)
  IN  (called /\ n > 0) =>
        /\ Len(context) = (IF n > 20 THEN 20 ELSE n)
        /\ \A i \in DOMAIN context :
             /\ context[i].kind = "match"
             /\ PositionOf(context[i]) \in matching
             /\ Rank(PositionOf(context[i]), matching) = i - 1

\* More than 20 rows of several sheets match, rows that do not match lie
\* between them, and 20 snippets are returned
C2_Witness ==
  LET matching == MatchingPositions(documentData, keywords)
  IN  /\ called
      /\ Cardinality(matching) > 20
      /\ Len(context) = 20
      /\ \E p \in Positions(documentData) \ matching :
           Before(p, PositionOf(context[20]))
      /\ context[1].sheet < context[20].sheet
      /\ \E i \in 1..19 : context[i].sheet = context[i + 1].sheet

\* C3: when no row of any sheet matches a keyword, the result is the sample
\* fallback: one snippet per sheet that has a row, built from the first row of
\* the sheet and prefixed [Sample from sheet "<sheetName>"], in sheet order,
\* sheets without rows skipped, and no cap of 20 applied.
C3_SampleFallback ==
  (called /\ MatchingPositions(documentData, keywords) = {}) =>
    IsSampleFallback(context, documentData)

\* No row matches the keywords of the query, some sheet has no rows, and more
\* than 20 samples are returned
C3_Witness ==
  /\ called
  /\ keywords # <<>>
  /\ MatchingPositions(documentData, keywords) = {}
  /\ \E sh \in DOMAIN documentData : Len(documentData[sh].rows) = 0
  /\ Len(context) > 20
  /\ Len(context) < Len(documentData)

\* C4: if the keyword set derived from the query is empty, the result is the
\* sample fallback (one snippet per sheet that has a row, first row only).
C4_NoKeywordsIsFallback ==
  (called /\ keywords = <<>>) => IsSampleFallback(context, documentData)

\* A query of stop words and short tokens only, over sheets that have several
\* rows: one sample per sheet is returned
C4_Witness ==
  /\ called
  /\ query # <<>>
  /\ keywords = <<>>
  /\ Len(context) > 1
  /\ \A i \in DOMAIN context : Len(documentData[context[i].sheet].rows) > 1

\* C5: the length of the result is at most max(20, number of sheets that have
\* at least one row).
C5_LengthBound ==
  LET sheets == Cardinality(NonEmptySheets(documentData))
  IN  called => Len(context) <= (IF sheets > 20 THEN sheets ELSE 20)

\* More than 20 rows of fewer than 20 sheets match, and 20 are returned
C5_Witness ==
  /\ called
  /\ Cardinality(NonEmptySheets(documentData)) < 20
  /\ Len(relevantContent) > 20
  /\ Len(context) = 20

\* The upper-case letter of each lower-case letter
UpperOf ==
  [c \in Range(LowerLetters) |->
     UpperLetters[CHOOSE i \in DOMAIN LowerLetters : LowerLetters[i] = c]]

\* s with every letter in upper case
ToUpperCase(s) ==
  [i \in DOMAIN s |-> IF s[i] \in DOMAIN UpperOf THEN UpperOf[s[i]] ELSE s[i]]

\* The tokens of s between runs of whitespace characters
RECURSIVE WhitespaceTokensFrom(_, _, _)
WhitespaceTokensFrom(s, i, cur) ==
  IF i > Len(s) THEN (IF cur = <<>> THEN <<>> ELSE <<cur>>)
  ELSE IF s[i] \in WhitespaceChars
    THEN (IF cur = <<>> THEN <<>> ELSE <<cur>>) \o WhitespaceTokensFrom(s, i + 1, <<>>)
  ELSE WhitespaceTokensFrom(s, i + 1, Append(cur, s[i]))

\* The keywords of q as the claim C6 states them
WhitespaceKeywords(q) ==
  SelectSeq(WhitespaceTokensFrom(ReplaceNonWord(toLowerCase(q)), 1, <<>>),
            LAMBDA w : Len(w) > 2 /\ w \notin stopWords)

\* C6: the keywords are the tokens obtained by lowercasing the query, replacing
\* every character that is neither a word character nor whitespace by a space,
\* splitting on whitespace (any whitespace character, and runs of it), and
\* discarding the tokens of length 2 or less and the stop words.
C6_KeywordsSplitOnWhitespace ==
  called => keywords = WhitespaceKeywords(query)

\* The positions the snippets of seq were built from
SnippetPositions(seq) == { PositionOf(seq[i]) : i \in DOMAIN seq }

\* C7: the loop over the rows emits a row as a match if and only if at least
\* one keyword is a substring of the lowercased serialized row (plain substring
\* containment); a row that contains no keyword is never returned as a match.
C7_SubstringMatch ==
  LET matching == MatchingPositions(documentData, keywords)
  IN  called =>
        /\ SnippetPositions(relevantContent) = matching
        /\ \A i \in DOMAIN relevantContent : relevantContent[i].kind = "match"
        /\ \A i \in DOMAIN context :
             context[i].kind = "match" => PositionOf(context[i]) \in matching

\* The keyword paris matches the row whose note is ComPARISon, inside the
\* larger word, and another row of the dataset matches no keyword
C7_Witness ==
  /\ called
  /\ keywords = <<<<"p","a","r","i","s">>>>
  /\ \E i \in DOMAIN context :
       /\ context[i].kind = "match"
       /\ RowAt(documentData, PositionOf(context[i])) = RowPool[4]
  /\ Positions(documentData) \ MatchingPositions(documentData, keywords) # {}

\* data with the keys and the string values of every row in upper case
UpperData(data) ==
  [sh \in DOMAIN data |->
     [name |-> data[sh].name,
      rows |-> [r \in DOMAIN data[sh].rows |->
                  [e \in DOMAIN data[sh].rows[r] |->
                     LET entry == data[sh].rows[r][e]
                     IN  Entry(ToUpperCase(entry.key),
                               IF entry.value.type = "string"
                                 THEN StringValue(ToUpperCase(entry.value.str))
                                 ELSE entry.value)]]]]

\* C8: matching is case-insensitive and snippets keep the original case: the
\* rows that match are the same for the query in upper case, for the query in
\* lower case and for the rows' text in upper case, and every string value of
\* a row occurs in its snippet with its original case.
C8_CaseInsensitive ==
  called =>
    /\ SnippetPositions(ForEachSheet(documentData, 1, Keywords(ToUpperCase(query))))
         = SnippetPositions(relevantContent)
    /\ SnippetPositions(ForEachSheet(documentData, 1, Keywords(toLowerCase(query))))
         = SnippetPositions(relevantContent)
    /\ SnippetPositions(ForEachSheet(UpperData(documentData), 1, keywords))
         = SnippetPositions(relevantContent)
    /\ \A i \in DOMAIN context :
         LET row == RowAt(documentData, PositionOf(context[i]))
         IN  \A e \in DOMAIN row :
               row[e].value.type = "string" =>
                 IsSubstring(row[e].value.str, context[i].text)

\* A query with upper-case letters matches a row whose value has upper-case
\* letters, and the snippet is not the lowercased text
C8_Witness ==
  /\ called
  /\ query # toLowerCase(query)
  /\ \E i \in DOMAIN context :
       /\ context[i].kind = "match"
       /\ context[i].text # toLowerCase(context[i].text)
       /\ \E k \in DOMAIN keywords :
            ~IsSubstring(keywords[k],
                         JSONstringify(RowAt(documentData, PositionOf(context[i]))))

\* The dataset {Sheet1: [{city: "Paris", note: "nice weather"}]}
ExampleData ==
  << [name |-> <<"S","h","e","e","t","1">>,
      rows |-> << << Entry(<<"c","i","t","y">>, StringValue(<<"P","a","r","i","s">>)),
                     Entry(<<"n","o","t","e">>, StringValue(<<"n","i","c","e"," ","w","e","a","t","h","e","r">>)) >> >>] >>

\* The text of a snippet after its "]: "
RECURSIVE BodyFrom(_, _)
BodyFrom(text, i) ==
  IF i + 2 > Len(text) THEN <<>>
  ELSE IF SubSeq(text, i, i + 2) = <<"]", ":", " ">>
    THEN SubSeq(text, i + 3, Len(text))
  ELSE BodyFrom(text, i + 1)

\* C9: a match snippet is [From sheet "<sheetName>", row <n>]: followed by the
\* row's key: value pairs joined with ", ", where n is the 1-based position of
\* the row in its sheet; the dataset {Sheet1: [{city: Paris, note: nice
\* weather}]} with the query "weather in Paris" yields exactly the snippet
\* [From sheet "Sheet1", row 1]: city: Paris, note: nice weather.
C9_MatchSnippetForm ==
  called =>
    /\ \A i \in DOMAIN context :
         context[i].kind = "match" =>
           LET row == RowAt(documentData, PositionOf(context[i]))
           IN  /\ context[i].text =
                    <<"[","F","r","o","m"," ","s","h","e","e","t"," ","\"">> \o documentData[context[i].sheet].name
                    \o <<"\"",","," ","r","o","w"," ">> \o Decimal(context[i].row)
                    \o <<"]", ":", " ">> \o FormatRow(row)
               /\ row = RowPool[3] =>
                    BodyFrom(context[i].text, 1) =
                      <<"i","d",":"," ","7",","," ","o","k",":"," ","t","r","u","e",",",
                        " ","n","o","t","e",":"," ","n","u","l","l">>
    /\ (documentData = ExampleData /\ query = ExampleQuery) =>
         [i \in DOMAIN context |-> context[i].text] =
           << <<"[","F","r","o","m"," ","s","h","e","e","t"," ","\"","S","h","e",
               "e","t","1","\"",","," ","r","o","w"," ","1","]",":"," ","c","i",
               "t","y",":"," ","P","a","r","i","s",","," ","n","o","t","e",":",
               " ","n","i","c","e"," ","w","e","a","t","h","e","r">> >>

\* A match is returned whose row number is not its position among the matches
C9_Witness ==
  /\ called
  /\ \E i \in DOMAIN context :
       /\ context[i].kind = "match"
       /\ context[i].sheet = 1
       /\ context[i].row > i

\* C10 as stated: the result is empty only when the dataset has no sheets, and
\* is empty for the dataset without sheets.
C10_EmptyOnlyWithoutSheets ==
  called => (context = <<>> <=> documentData = <<>>)

\* C10 as amended: the result is empty exactly when the dataset has no rows (no
\* sheets, or only sheets without rows), whatever the query.
C10_EmptyOnlyWithoutRows ==
  called => (context = <<>> <=> NonEmptySheets(documentData) = {})

\* A dataset of sheets without rows: the result is empty
C10_Witness ==
  /\ called
  /\ documentData # <<>>
  /\ keywords # <<>>
  /\ context = <<>>

\* C11: the selector is deterministic and stateless: calls with the same
\* query over the same dataset return the same sequence, whatever calls were
\* made before them or between them.
C11_Deterministic ==
  \A i, j \in DOMAIN log :
    log[i].query = log[j].query => log[i].context = log[j].context

\* A query is repeated after a call with another query that returned
\* something else, and the call in between returned matches
C11_Witness ==
  /\ Len(log) = 3
  /\ log[1].query = log[3].query
  /\ log[2].query # log[1].query
  /\ log[2].context # log[1].context
  /\ log[1].context # <<>>
  /\ \E i \in DOMAIN log[2].context : log[2].context[i].kind = "match"

\* C12: a call never mutates the dataset: every sheet keeps its rows, in
\* their order, with their values, on the match path, the truncation path and
\* the fallback path.
C12_DatasetUnchanged == [][documentData' = documentData]_vars

\* A call took the fallback path over a dataset that has rows, after which
\* the dataset still has the rows the samples were built from
C12_Witness ==
  /\ called
  /\ relevantContent = <<>>
  /\ Len(context) > 1
  /\ \A i \in DOMAIN context :
       context[i].text =
         SampleText(documentData[context[i].sheet].name,
                    documentData[context[i].sheet].rows[1])

\* C13: for every query and every dataset of sheets of rows of string, number,
\* boolean or null values, a call returns (no error is raised); when nothing
\* matches it returns the sample fallback.
C13_AlwaysReturns ==
  [][/\ called'
     /\ relevantContent' = <<>> =>
          Len(context') = Cardinality(NonEmptySheets(documentData))]_vars

\* A call over rows with number, boolean and null values matched nothing and
\* returned samples
C13_Witness ==
  /\ called
  /\ keywords # <<>>
  /\ relevantContent = <<>>
  /\ \E i \in DOMAIN context :
       RowAt(documentData, PositionOf(context[i])) = RowPool[3]

----------------------------------------------------------------------------
(* Properties of generateCompletion and handleSendMessage *)

\* The strings with one blank line between consecutive ones
RECURSIVE BlankLineSeparated(_)
BlankLineSeparated(items) ==
  IF items = <<>> THEN <<>>
  ELSE IF Len(items) = 1 THEN items[1]
  ELSE items[1] \o <<"\n", "\n">> \o BlankLineSeparated(Tail(items))

HasPrefix(s, prefix) ==
  /\ Len(prefix) <= Len(s)
  /\ SubSeq(s, 1, Len(prefix)) = prefix

\* C14: once generateCompletion has been called, the request it handed to the
\* client ends with the user prompt as its only user message; when the
\* context has entries, one system message is the grounding header followed by
\* the entries separated by blank lines and no message says that data is
\* missing; when the context is absent or empty the request was still made,
\* one system message says that no specific data is available and no message
\* carries the grounding header.
C14_GroundedOrUngroundedRequest ==
  completion # "idle" =>
    LET prompt == completionCall.prompt
        ctx == completionCall.context
        n == Len(request)
    IN  /\ n >= 2
        /\ request[n] = Message("user", prompt)
        /\ \A i \in 1..(n - 1) : request[i].role = "system"
        /\ IF ctx.given /\ ctx.items # <<>>
             THEN /\ \E i \in 1..(n - 1) :
                       request[i].content =
                         GroundingHeader \o BlankLineSeparated(ctx.items)
                  /\ \A i \in 1..n : request[i].content # UngroundedNotice
             ELSE /\ \E i \in 1..(n - 1) : request[i].content = UngroundedNotice
                  /\ \A i \in 1..(n - 1) :
                       ~HasPrefix(request[i].content, GroundingHeader)

C14_Witness ==
  /\ completion = "resolved"
  /\ completionCall.context.given
  /\ Len(completionCall.context.items) >= 2
  /\ request[2].content =
       GroundingHeader \o completionCall.context.items[1] \o <<"\n", "\n">>
         \o completionCall.context.items[2]
  /\ request[4].content = completionCall.prompt

\* C20: a step in which the pending completion fails appends exactly one
\* assistant message, the apology, after the user message that was sent
\* (which stays in the list), resets isLoading to FALSE and leaves the text
\* input enabled for the next message.
C20_FailureAppendsApology ==
  [][(completion = "pending" /\ completion' = "rejected") =>
       /\ isLoading
       /\ messages # <<>>
       /\ messages[Len(messages)].role = "user"
       /\ messages' = Append(messages, Message("assistant", Apology))
       /\ isLoading' = FALSE
       /\ InputEnabled']_vars

C20_Witness ==
  \E i \in DOMAIN messages :
    /\ i > 1
    /\ i < Len(messages)
    /\ messages[i - 1].role = "user"
    /\ messages[i] = Message("assistant", Apology)
    /\ messages[i + 1].role = "user"
    /\ ~isLoading

----------------------------------------------------------------------------
(* Properties of searchDocuments *)

\* The words with " OR " between consecutive ones
RECURSIVE OrJoined(_)
OrJoined(words) ==
  IF words = <<>> THEN <<>>
  ELSE IF Len(words) = 1 THEN words[1]
  ELSE words[1] \o <<" ", "O", "R", " ">> \o OrJoined(Tail(words))

IsLooserRequest(r) == r.queryType = "simple" /\ r.searchMode = "any"

\* C15 as stated: whenever the primary request returned no results, a looser
\* request (query type simple, search mode any) was issued before
\* searchDocuments returned.
C15_LooserQueryAfterNoResults ==
  (searchPc = "done" /\ answers # <<>> /\ answers[1] = "empty") =>
    /\ Len(requests) >= 2
    /\ IsLooserRequest(requests[2])

\* C15, amended: the primary request carries the query with query type full
\* and search mode any.  When it returned no results and the query has a word
\* longer than two characters, the second request is the OR of these words
\* (simple, any); documents found by it are returned; if it found nothing the
\* third request is a longest of these words (simple, any) and the mock set is
\* returned only when that found nothing or failed; if the OR request failed
\* the mock set is returned at once.  When the query has no word longer than
\* two characters the mock set is returned without a further request.
C15_FallbackChain ==
  LET words == FallbackWords(searchQuery.query)
      n == Len(requests)
  IN  /\ n >= 1 =>
           /\ requests[1].search = searchQuery.query
           /\ requests[1].queryType = "full"
           /\ requests[1].searchMode = "any"
      /\ (searchPc = "done" /\ answers # <<>> /\ answers[1] = "empty") =>
           IF words = <<>>
             THEN n = 1 /\ searchResult.kind = "mock"
             ELSE /\ n >= 2
                  /\ requests[2].search = OrJoined(words)
                  /\ IsLooserRequest(requests[2])
                  /\ HasValue(answers[2]) =>
                       n = 2 /\ searchResult = ResponseValue(answers[2])
                  /\ answers[2] = "error" =>
                       n = 2 /\ searchResult.kind = "mock"
                  /\ answers[2] \in {"empty", "malformed"} =>
                       /\ n = 3
                       /\ IsLooserRequest(requests[3])
                       /\ \E i \in DOMAIN words :
                            /\ requests[3].search = words[i]
                            /\ \A j \in DOMAIN words : Len(words[j]) <= Len(words[i])
                       /\ searchResult.kind =
                            IF HasValue(answers[3])
                              THEN ResponseValue(answers[3]).kind ELSE "mock"

C15_Witness ==
  /\ searchPc = "done"
  /\ answers = <<"empty", "empty", "empty">>
  /\ Len(requests) = 3
  /\ Len(FallbackWords(searchQuery.query)) = 3
  /\ requests[3].search # FallbackWords(searchQuery.query)[1]
  /\ searchResult.kind = "mock"

----------------------------------------------------------------------------
(* Properties of processSheets *)

\* The text of row number k (1-based) of the sheet
TextOfRow(sheetData, k) == DocumentText(sheetData[k], ColumnsToUse(sheetData))

\* The documents a sheet calls for: one per row with text, in row order, the
\* id being the 0-based row index
ExpectedDocuments(sheetData) ==
  LET all == [k \in DOMAIN sheetData |->
                Document(Decimal(k - 1), TextOfRow(sheetData, k))]
  IN  SelectSeq(all, LAMBDA doc : doc.text # <<>>)

\* The documents submitted for the sheet so far, in submission order
SubmittedDocuments(sheet) ==
  LET batches == SelectSeq(submitted, LAMBDA b : b.sheet = sheet)
  IN  Flatten([b \in DOMAIN batches |-> batches[b].documents])

\* The 0-based row index a document id stands for
RowIndexOf(sheetData, id) == CHOOSE r \in 0..(Len(sheetData) - 1) : Decimal(r) = id

IsPrefix(s, t) == Len(s) <= Len(t) /\ SubSeq(t, 1, Len(s)) = s

\* The (sheet, block of batchSize rows) pairs that contain a row with text
BlocksWithText(data) ==
  { p \in UNION { { <<sh, j>> : j \in 0..(Len(data[sh].rows) \div batchSize) } :
                  sh \in DOMAIN data } :
      \E k \in DOMAIN data[p[1]].rows :
        (k - 1) \div batchSize = p[2] /\ TextOfRow(data[p[1]].rows, k) # <<>> }

\* C16: when the run is over, also after rejected analysis calls, one batch
\* has been submitted for every block of rows with text of every sheet, each
\* batch has been answered, no sheet with rows carries an error, and the
\* phrases the service returned for a batch are in the result of its sheet.
C16_FailedBatchDoesNotAbort ==
  processing.state = "done" =>
    /\ Len(submitted) = Cardinality(BlocksWithText(documentData))
    /\ Len(outcomes) = Len(submitted)
    /\ \A sh \in DOMAIN results :
         documentData[sh].rows # <<>> => results[sh].error = NoError
    /\ \A b \in DOMAIN submitted :
         outcomes[b] = "phrases" =>
           \A d \in DOMAIN submitted[b].documents :
             \E p \in DOMAIN results[submitted[b].sheet].keyPhrases :
               <<results[submitted[b].sheet].keyPhrases[p]>> =
                 ServiceKeyPhrases(submitted[b].documents[d])

C16_Witness ==
  /\ processing.state = "done"
  /\ outcomes = <<"rejected", "phrases", "phrases">>
  /\ submitted[1].sheet = 1
  /\ submitted[2].sheet = 1
  /\ submitted[3].sheet = 2
  /\ \E p \in DOMAIN results[1].keyPhrases :
       results[1].keyPhrases[p] = submitted[2].documents[1].text

\* C17: every submitted batch has between 1 and batchSize documents, all from
\* one block of batchSize consecutive rows; the documents submitted for a sheet
\* are, in order, a prefix of the sheet's rows with text, each with its
\* 0-based row index as id, and all of them once the run is over.
C17_BatchesOfTen ==
  /\ \A b \in DOMAIN submitted :
       LET documents == submitted[b].documents
           sheetData == documentData[submitted[b].sheet].rows
       IN  /\ Len(documents) >= 1
           /\ Len(documents) <= batchSize
           /\ \A d, e \in DOMAIN documents :
                RowIndexOf(sheetData, documents[d].id) \div batchSize =
                  RowIndexOf(sheetData, documents[e].id) \div batchSize
  /\ \A sh \in DOMAIN documentData :
       /\ IsPrefix(SubmittedDocuments(sh), ExpectedDocuments(documentData[sh].rows))
       /\ processing.state = "done" /\ results # <<>> =>
            SubmittedDocuments(sh) = ExpectedDocuments(documentData[sh].rows)

C17_Witness ==
  /\ processing.state = "done"
  /\ Len(documentData) = 1
  /\ Len(documentData[1].rows) > 2 * batchSize
  /\ Len(submitted) = 2
  /\ Len(submitted[1].documents) = batchSize
  /\ submitted[2].documents[1].id = Decimal(2 * batchSize)

----------------------------------------------------------------------------
(* Properties of POST /api/create-index *)

\* The upload calls made so far, in order
Uploads == SelectSeq(upstream, LAMBDA call : call.kind = "upload")

\* The documents uploaded so far, in upload order
UploadedDocuments == Flatten([u \in DOMAIN Uploads |-> Uploads[u].value])

\* Every submitted document as it is uploaded
AllPrepared ==
  [k \in DOMAIN reqDocuments.items |-> PrepareDocument(reqDocuments.items[k])]

\* C18: every upload carries between 1 and 1000 documents and all uploads but
\* the last carry 1000; the uploaded documents are, in order, a prefix of the
\* submitted ones; and once the count has been asked for, the uploads number
\* ceil(n / 1000), have all been answered, carry every document exactly once
\* and all precede the count call, which is the last call.
C18_UploadBatches ==
  LET n == Len(reqDocuments.items)
  IN  /\ \A u \in DOMAIN Uploads :
           /\ Len(Uploads[u].value) >= 1
           /\ Len(Uploads[u].value) <= uploadBatchSize
           /\ u < Len(Uploads) => Len(Uploads[u].value) = uploadBatchSize
      /\ IsPrefix(UploadedDocuments, AllPrepared)
      /\ \A c \in DOMAIN upstream :
           upstream[c].kind = "count" =>
             /\ c = Len(upstream)
             /\ Len(Uploads) = (n + uploadBatchSize - 1) \div uploadBatchSize
             /\ Len(upstreamAnswers) >= Len(Uploads) + 2
             /\ UploadedDocuments = AllPrepared

C18_Witness ==
  /\ createPc = "responded"
  /\ responses = <<Response(200, Unknown)>>
  /\ Len(reqDocuments.items) > 2 * uploadBatchSize
  /\ Len(Uploads) = 3
  /\ upstreamAnswers = <<"notFound", "ok", "ok", "error", "ok", "error">>
  /\ upstream[Len(upstream)].kind = "count"
  /\ Len(Uploads[3].value) = Len(reqDocuments.items) - 2 * uploadBatchSize

----------------------------------------------------------------------------
(* Properties of the configuration *)

\* C19 as stated, for the key-phrase feature: once the application has been
\* loaded, the key-phrase feature is usable whenever its own credentials are
\* set, whatever the OpenAI configuration; and without its credentials it
\* makes no call to the text-analytics client.
C19_MissingCredentialIsLocal ==
  /\ (appState # "loading" /\ hasCredentials) => appState = "mounted"
  /\ ~hasCredentials => analyzed = <<>>

----------------------------------------------------------------------------
(* Properties of the chat *)

\* C26: a request is outstanding only while isLoading is set; a call of
\* handleSendMessage made while loading or with blank input changes neither
\* the messages, the input, the loading flag nor the request; and a call that
\* is accepted is made while no request is outstanding.
C26_OneOutstandingRequest ==
  [][/\ completion = "pending" <=> isLoading
     /\ Len(log') > Len(log) =>
          IF isLoading \/ trim(inputValue) = <<>>
            THEN UNCHANGED <<messages, inputValue, isLoading, completionVars>>
            ELSE completion # "pending" /\ completion' = "pending"]_vars

C26_Witness ==
  /\ Len(log) = 3
  /\ ~log[1].loading /\ log[1].blank
  /\ ~log[2].loading /\ ~log[2].blank
  /\ log[3].loading
  /\ completion = "pending"
  /\ UserTurns = 1

\* The list is an optional system message followed by user and assistant
\* messages in turn, a user message first
WellFormedMessages ==
  LET start == IF messages # <<>> /\ messages[1].role = "system" THEN 1 ELSE 0
  IN  \A i \in DOMAIN messages :
        i > start =>
          messages[i].role = IF (i - start) % 2 = 1 THEN "user" ELSE "assistant"

\* C27: the message list is always well formed; a step that ends the loading
\* appends exactly one assistant message after the user message sent; and
\* whenever the chat is loading, it is eventually not loading.
C27_AlternationAndAnswer ==
  /\ []WellFormedMessages
  /\ [][isLoading /\ ~isLoading' =>
          /\ messages[Len(messages)].role = "user"
          /\ Len(messages') = Len(messages) + 1
          /\ SubSeq(messages', 1, Len(messages)) = messages
          /\ messages'[Len(messages')].role = "assistant"]_vars
  /\ isLoading ~> ~isLoading

C27_Witness ==
  /\ Len(messages) = 5
  /\ messages[1].role = "system"
  /\ messages[3] = Message("assistant", Apology)
  /\ messages[5].role = "assistant"
  /\ messages[5] # Message("assistant", Apology)
  /\ ~isLoading

----------------------------------------------------------------------------
(* Properties of the search service *)

\* What searchDocuments resolved to is an array
IsArray(result) == result.kind \in {"mock", "results"}

\* C28 as stated: what searchDocuments resolved to is an array; a call posts
\* at most 3 requests; and a call made while no index has been created posts
\* none and resolves to the mock results.
C28_AlwaysAnArray ==
  /\ Len(requests) <= 3
  /\ searchPc = "done" =>
       /\ IsArray(searchResult)
       /\ currentIndexName = <<>> =>
            /\ requests = <<>>
            /\ searchResult = getMockSearchResults(searchQuery.query)

\* C29: a step changes currentIndexName only to the index name a create-index
\* response carries and createTempIndex then resolves to true; when it
\* resolves to false the name stays; a search request posted afterwards
\* targets the current index, and without an index no request is posted.
C29_IndexNameFrame ==
  [][/\ currentIndexName' # currentIndexName =>
          createResult' = <<TRUE>> /\ currentIndexName' \in IndexNames
     /\ createResult' = <<FALSE>> => currentIndexName' = currentIndexName
     /\ (requests' # requests /\ requests' # <<>>) =>
          /\ currentIndexName # <<>>
          /\ requests'[Len(requests')].index = currentIndexName
     /\ (searchPc' = "done" /\ searchPc = "done" /\ currentIndexName = <<>>
         /\ searchQuery' # searchQuery) =>
          searchResult'.kind = "mock" /\ requests' = <<>>]_vars

C29_Witness ==
  /\ createResult = <<FALSE>>
  /\ currentIndexName \in IndexNames
  /\ searchPc = "lastResort"
  /\ \A i \in DOMAIN requests : requests[i].index = currentIndexName

----------------------------------------------------------------------------
(* Properties of the create-index endpoint *)

\* The kinds of the calls made to the search service, in order
CallKinds == [c \in DOMAIN upstream |-> upstream[c].kind]

\* The calls of a request that runs to its end, for n documents
AllCallKinds(n) ==
  <<"delete", "create">>
    \o [u \in 1..((n + uploadBatchSize - 1) \div uploadBatchSize) |-> "upload"]
    \o <<"count">>

\* C30: a request in progress has no response and a finished one has exactly
\* one; the calls to the search service are a prefix of delete, create, the
\* uploads, count; 400 is sent for invalid documents and 500 for missing
\* credentials before any call; whatever the delete answered the index is
\* created; a failed creation gives 500 with no upload; once the index is
\* created the response is 200 after all the calls, whatever the uploads and
\* the count answered; and every request in progress is eventually responded.
C30_OneResponseInOrder ==
  /\ [](LET n == Len(reqDocuments.items)
            valid == reqDocuments.isArray /\ n > 0
        IN  /\ Len(responses) = IF createPc = "responded" THEN 1 ELSE 0
            /\ IsPrefix(CallKinds, AllCallKinds(n))
            /\ Len(upstreamAnswers) <= Len(upstream)
            /\ createPc = "responded" =>
                 IF ~valid
                   THEN responses[1].status = 400 /\ upstream = <<>>
                 ELSE IF ~searchConfigured
                   THEN responses[1].status = 500 /\ upstream = <<>>
                 ELSE IF upstreamAnswers[2] # "ok"
                   THEN responses[1].status = 500 /\ CallKinds = <<"delete", "create">>
                   ELSE /\ responses[1].status = 200
                        /\ CallKinds = AllCallKinds(n)
                        /\ Len(upstreamAnswers) = Len(upstream))
  /\ (createPc \notin {"idle", "responded"}) ~> (createPc = "responded")

C30_Witness ==
  /\ createPc = "responded"
  /\ responses = <<Response(200, Unknown)>>
  /\ Len(reqDocuments.items) = uploadBatchSize + 1
  /\ upstreamAnswers = <<"error", "ok", "error", "error", "error">>
  /\ CallKinds = <<"delete", "create", "upload", "upload", "count">>

----------------------------------------------------------------------------
(* Properties of the language service and of the two analyses *)

\* The sheets without rows
EmptySheets == { s \in DOMAIN documentData : documentData[s].rows = <<>> }

\* One entry per sheet, in sheet order, none of them processing
OneEntryPerSheet(entries) ==
  /\ Len(entries) = Len(documentData)
  /\ \A s \in DOMAIN documentData :
       entries[s].sheetName = documentData[s].name /\ ~entries[s].isProcessing

\* C21 as stated: when either analysis has ended, its results have one entry
\* per sheet in sheet order with isProcessing false, the entry of every sheet
\* without rows carries an error, and no call was made for such a sheet.
C21_EmptySheetAnnotated ==
  /\ processing.state = "done" =>
       /\ OneEntryPerSheet(results)
       /\ \A s \in EmptySheets :
            /\ results[s].error # NoError
            /\ \A b \in DOMAIN submitted : submitted[b].sheet # s
  /\ sentimentRun.state = "done" =>
       /\ OneEntryPerSheet(sentimentResults)
       /\ \A s \in EmptySheets : sentimentResults[s].error # NoError
       /\ \A c \in DOMAIN sentimentCalls : trim(sentimentCalls[c]) # <<>>

NoRepetition(seq) == \A i, j \in DOMAIN seq : seq[i] = seq[j] => i = j

\* C24: without credentials client.analyze is never called by either method,
\* no call throws, extractKeyPhrases resolves to the mock phrases of the batch
\* it was given, at most 10 and without repetition, and analyzeSentiment
\* resolves to the mock analysis of the text it was given.
C24_MockWithoutCredentials ==
  ~hasCredentials =>
    /\ analyzed = <<>>
    /\ sentimentCalls = <<>>
    /\ ~resolved.threw
    /\ (resolved.method = "extractKeyPhrases" /\ outcomes # <<>>) =>
         /\ resolved.value =
              getMockKeyPhrases(DocumentsJSON(submitted[Len(outcomes)].documents))
         /\ Len(resolved.value) <= maxMockKeyPhrases
         /\ NoRepetition(resolved.value)
    /\ (resolved.method = "analyzeSentiment" /\ sentimentRun.sheet > 1) =>
         resolved.value =
           getMockSentimentAnalysis(SheetText(documentData[sentimentRun.sheet - 1].rows))

C24_Witness ==
  /\ ~hasCredentials
  /\ resolved.method = "extractKeyPhrases"
  /\ Len(resolved.value) = maxMockKeyPhrases
  /\ Len(MockCapitalized(splitWhitespace(DocumentsJSON(submitted[1].documents)))) >
       maxMockKeyPhrases
  /\ processing.state = "done"
  /\ sentimentRun.state = "done"
  /\ sentimentResults[1].sentiment = "neutral"

\* The value is a mock analysis
IsMockSentiment(value) ==
  /\ Len(value.sentences) = 1
  /\ value = getMockSentimentAnalysis(value.sentences[1].text)

\* C25: for a mock analysis of a text with p words that hit a positive word
\* and n words that hit a negative word, the label is positive iff p > 2n,
\* negative iff not p > 2n and n > 2p, mixed iff neither and p > 0 and n > 0,
\* neutral iff p = n = 0; and p > 2n and n > 2p never hold together.
C25_MockSentimentThresholds ==
  (resolved.method = "analyzeSentiment" /\ IsMockSentiment(resolved.value)) =>
    LET words == splitWhitespace(toLowerCase(resolved.value.sentences[1].text))
        p == positiveCount(words)
        n == negativeCount(words)
        label == resolved.value.sentiment
    IN  /\ label \in {"positive", "negative", "mixed", "neutral"}
        /\ label = "positive" <=> p > 2 * n
        /\ label = "negative" <=> (~(p > 2 * n) /\ n > 2 * p)
        /\ label = "mixed" <=> (~(p > 2 * n) /\ ~(n > 2 * p) /\ p > 0 /\ n > 0)
        /\ label = "neutral" <=> (p = 0 /\ n = 0)
        /\ ~(p > 2 * n /\ n > 2 * p)

C25_Witness ==
  /\ resolved.method = "analyzeSentiment"
  /\ IsMockSentiment(resolved.value)
  /\ resolved.value.sentiment = "mixed"
  /\ LET words == splitWhitespace(toLowerCase(resolved.value.sentences[1].text))
     IN  positiveCount(words) = 2 /\ negativeCount(words) = 4

----------------------------------------------------------------------------
(* Properties of the two keyword extractions *)

\* The tokens of the query that extractKeywords keeps
SurvivingTokens(q) ==
  SelectSeq(splitWhitespace(ReplaceNonWord(toLowerCase(q))),
            LAMBDA word : Len(word) > 1 /\ word \notin searchStopWords)

\* The phrases of n adjacent tokens, joined with one space
AdjacentPhrases(tokens, n) ==
  { join(SubSeq(tokens, i, i + n - 1), <<" ">>) : i \in 1..(Len(tokens) - n + 1) }

\* C22: the keywords searchDocuments extracted from its query have no
\* repetition and are exactly the surviving tokens and the phrases of 2 and of
\* 3 adjacent surviving tokens; the keywords the chat selector tests are the
\* tokens of its own extraction, none of them has a space in it, and none of
\* them is a phrase of 2 or 3 tokens of extractKeywords.
C22_KeywordPhrases ==
  /\ requests # <<>> =>
       LET tokens == SurvivingTokens(searchQuery.query)
       IN  /\ NoRepetition(searchQuery.keywords)
           /\ Range(searchQuery.keywords) =
                AdjacentPhrases(tokens, 1) \cup AdjacentPhrases(tokens, 2)
                  \cup AdjacentPhrases(tokens, 3)
  /\ called =>
       /\ keywords = Keywords(query)
       /\ \A k \in DOMAIN keywords :
            /\ " " \notin Range(keywords[k])
            /\ LET tokens == SurvivingTokens(query)
               IN  keywords[k] \notin
                     AdjacentPhrases(tokens, 2) \cup AdjacentPhrases(tokens, 3)

C22_Witness ==
  /\ called
  /\ requests # <<>>
  /\ query = searchQuery.query
  /\ Len(SurvivingTokens(query)) = 5
  /\ Len(searchQuery.keywords) = 6
  /\ Len(keywords) = 5
  /\ \E k \in DOMAIN searchQuery.keywords :
       Len(splitWhitespace(searchQuery.keywords[k])) = 3

----------------------------------------------------------------------------
(* Properties of the proxy *)

\* The number of occurrences of k in s
Occurrences(s, k) ==
  Cardinality({ i \in 0..(Len(s) - Len(k)) : \A j \in 1..Len(k) : s[i + j] = k[j] })

\* C23 as stated: every forwarded request carries the configured key in its
\* api-key header and the api-version string exactly once in its URL.
C23_KeyAndVersionOnce ==
  \A f \in DOMAIN forwarded :
    /\ forwarded[f].headers.apiKey = apiKey
    /\ Occurrences(forwarded[f].url, API_VERSION) = 1

\* C23, amended: every forwarded request has the method of the client's
\* request and carries the configured key, whether or not the client sent one;
\* its URL is the endpoint, the client's path and the api-version parameter,
\* after & when the path has a question mark and after ? otherwise, so that
\* the URL has one api-version string more than the client's path; without
\* credentials nothing is forwarded.
C23_KeyAndVersionAppended ==
  /\ ~searchConfigured => forwarded = <<>>
  /\ Len(forwarded) <= 1
  /\ proxyPc = "forwarding" => Len(forwarded) = 1
  /\ \A f \in DOMAIN forwarded :
       LET url == forwarded[f].url
           path == proxyRequest.url
           hasQuery == \E i \in DOMAIN path : path[i] = "?"
       IN  /\ forwarded[f].method = proxyRequest.method
           /\ forwarded[f].headers.apiKey = apiKey
           /\ url = searchEndpoint \o path \o <<IF hasQuery THEN "&" ELSE "?">>
                      \o ApiVersionParameter \o API_VERSION
           /\ Occurrences(url, <<"?">>) = IF hasQuery THEN Occurrences(path, <<"?">>) ELSE 1
           /\ Occurrences(url, API_VERSION) = Occurrences(path, API_VERSION) + 1

C23_Witness ==
  /\ proxyPc = "responded"
  /\ proxyResponses = <<[status |-> 200]>>
  /\ Len(forwarded) = 1
  /\ proxyRequest.method = "POST"
  /\ ~proxyRequest.sentKey
  /\ Occurrences(proxyRequest.url, <<"?">>) = 1
  /\ Occurrences(proxyRequest.url, <<"&">>) = 1
  /\ Occurrences(forwarded[1].url, API_VERSION) = 1
  /\ forwarded[1].headers.apiKey = apiKey

====
